---- MODULE Spec2Model ----
(***************************************************************************)
(* Model of the octads leaf-oriented search tree (src/trees/search_tree.rs)*)
(* on top of the block allocator (src/allocator.rs).                       *)
(*                                                                         *)
(* Addresses are positive integers, NULL is 0.  The heap `mem` maps every  *)
(* slot the allocator has issued to the TreeNode stored there.  Keys are   *)
(* integers (as in the repository's tests); a key slot also carries the    *)
(* state of its MaybeUninit cell.                                          *)
(***************************************************************************)
EXTENDS Integers, Sequences, FiniteSets, TLC

\* ------------------------------------------------------------------ bounds
MaxKey == 3
MaxOps == 3
MaxIterOps == 2
MaxLen == 4
MaxSlots == 4
MaxStack == 4
MaxCap == 3
MaxShadow == 10
MaxQueue == 3

Keys == 1..MaxKey
\* values are opaque to the tree; two of them tell a replaced value from the
\* one that replaces it
Vals == {1, 2}

\* --------------------------------------------------------- program constants
DEFAULT_BLOCK_SIZE == 256
DEFAULT_BLOCK_CAP == 32
NewBlockSize == 2
NewBlocksCap == 1

NULL == 0
None == 0

VARIABLES
  allocator,   \* SearchTree.allocator : BlockAllocator<TreeNode<K, V>>
  mem,         \* the heap: address -> TreeNode
  root,        \* SearchTree.root
  length,      \* SearchTree.length
  bind,        \* reference map: key -> value of the live binding, None if unbound
  ops,         \* number of insert and remove calls made on the tree
  lastOp,      \* the last call and what it returned
  it,          \* the live SearchTreeIter / SearchTreeFind, or NoIter
  yielded,     \* the items the live iterator has yielded so far, per end
  outstanding, \* pool client: the addresses handed out and not yet returned
  cont,        \* the container under test (a stack or a queue), or NoCont
  refseq,      \* the reference sequence the container is compared with
  hist         \* history: the events the container under test has been through

vars == <<allocator, mem, root, length, bind, ops, lastOp, it, yielded,
          outstanding, cont, refseq, hist>>

\* the variables of the pool client and of the container under test
others == <<outstanding, cont, refseq, hist>>

\* ------------------------------------------------------------ tree nodes
\* TreePtr / TreeElem: Null | Node(ptr) | Val(ptr)
PtrNull == [tag |-> "Null", ptr |-> 0]
PtrNode(n) == [tag |-> "Node", ptr |-> n]
PtrVal(v) == [tag |-> "Val", ptr |-> v]

\* TreeNode::default()
DefaultNode == [key |-> 0, kst |-> "uninit", right |-> NULL, left |-> PtrNull]

\* TreeNode::is_empty
is_empty(n) == n.left.tag = "Null" /\ n.right = NULL

\* TreeNode::is_leaf (has_value)
is_leaf(n) == n.left.tag = "Val" /\ n.right = NULL

\* TreeNode::has_subtrees
has_subtrees(n) == n.left.tag = "Node" /\ n.right # NULL

\* ------------------------------------------------------------ allocator
\* BlockAllocator::new
new_allocator(block_size, blocks_cap) ==
  [blocks |-> <<>>, blocks_cap |-> blocks_cap, blocks_len |-> 0,
   cursor |-> NULL, block_size |-> block_size, size_left |-> 0,
   free_list |-> NULL]

\* new_block with a directory whose entries are lost when it doubles
new_block_lose_directory(a) ==
  LET start == a.blocks_len * a.block_size + 1
  IN IF a.blocks_len = a.blocks_cap
     THEN [a EXCEPT !.blocks = [i \in 1..(a.blocks_len + 1) |->
                                  IF i = a.blocks_len + 1 THEN start ELSE NULL],
                    !.blocks_cap = a.blocks_cap * 2,
                    !.blocks_len = @ + 1, !.cursor = start,
                    !.size_left = a.block_size]
     ELSE [a EXCEPT !.blocks = Append(@, start),
                    !.blocks_len = @ + 1, !.cursor = start,
                    !.size_left = a.block_size]

\* the block allocation branch with a directory that grows by one entry
new_block_grow_by_one(a) ==
  LET start == a.blocks_len * a.block_size + 1
      cap == IF a.blocks_len = a.blocks_cap THEN a.blocks_cap + 1 ELSE a.blocks_cap
  IN [a EXCEPT !.blocks = Append(@, start), !.blocks_cap = cap,
               !.blocks_len = @ + 1, !.cursor = start,
               !.size_left = a.block_size]

\* the block allocation branch of get_node: a new block starts right after
\* the last slot of the previous block, the directory doubles when full
new_block(a) ==
  LET start == a.blocks_len * a.block_size + 1
      cap == IF a.blocks_len = a.blocks_cap THEN a.blocks_cap * 2 ELSE a.blocks_cap
  IN [a EXCEPT !.blocks = Append(@, start), !.blocks_cap = cap,
               !.blocks_len = @ + 1, !.cursor = start,
               !.size_left = a.block_size]

\* get_node that leaves the head of the free list in place
get_node_keep_free_list(a, m) ==
  IF a.free_list # NULL
  THEN LET node == a.free_list
       IN [node |-> node, alloc |-> a,
           mem |-> [m EXCEPT ![node] = DefaultNode]]
  ELSE LET a1 == IF a.cursor = NULL \/ a.size_left = 0 THEN new_block(a) ELSE a
           node == a1.cursor
       IN [node |-> node,
           alloc |-> [a1 EXCEPT !.cursor = @ + 1, !.size_left = @ - 1],
           mem |-> [x \in (DOMAIN m) \cup {node} |-> IF x = node THEN DefaultNode ELSE m[x]]]

\* get_node that does not reset a node it takes from the free list
get_node_no_reset(a, m) ==
  IF a.free_list # NULL
  THEN LET node == a.free_list
       IN [node |-> node,
           alloc |-> [a EXCEPT !.free_list = m[node].right],
           mem |-> m]
  ELSE LET a1 == IF a.cursor = NULL \/ a.size_left = 0 THEN new_block(a) ELSE a
           node == a1.cursor
       IN [node |-> node,
           alloc |-> [a1 EXCEPT !.cursor = @ + 1, !.size_left = @ - 1],
           mem |-> [x \in (DOMAIN m) \cup {node} |-> IF x = node THEN DefaultNode ELSE m[x]]]

\* get_node that takes a fresh slot of the current block before it turns to
\* the free list
get_node_fresh_first(a, m) ==
  IF a.free_list # NULL /\ (a.cursor = NULL \/ a.size_left = 0)
  THEN LET node == a.free_list
       IN [node |-> node,
           alloc |-> [a EXCEPT !.free_list = m[node].right],
           mem |-> [m EXCEPT ![node] = DefaultNode]]
  ELSE LET a1 == IF a.cursor = NULL \/ a.size_left = 0 THEN new_block(a) ELSE a
           node == a1.cursor
       IN [node |-> node,
           alloc |-> [a1 EXCEPT !.cursor = @ + 1, !.size_left = @ - 1],
           mem |-> [x \in (DOMAIN m) \cup {node} |-> IF x = node THEN DefaultNode ELSE m[x]]]

\* BlockAllocator::get_node; returns the node, the allocator and the heap
get_node(a, m) ==
  IF a.free_list # NULL
  THEN LET node == a.free_list
       IN [node |-> node,
           alloc |-> [a EXCEPT !.free_list = m[node].right],
           mem |-> [m EXCEPT ![node] = DefaultNode]]
  ELSE LET a1 == IF a.cursor = NULL \/ a.size_left = 0 THEN new_block(a) ELSE a
           node == a1.cursor
       IN [node |-> node,
           alloc |-> [a1 EXCEPT !.cursor = @ + 1, !.size_left = @ - 1],
           mem |-> [x \in (DOMAIN m) \cup {node} |-> IF x = node THEN DefaultNode ELSE m[x]]]

\* return_node that does not link the node to the old head
return_node_no_link(a, m, node) ==
  [alloc |-> [a EXCEPT !.free_list = node], mem |-> m]

\* BlockAllocator::return_node
return_node(a, m, node) ==
  [alloc |-> [a EXCEPT !.free_list = node],
   mem |-> [m EXCEPT ![node].right = a.free_list]]

\* ------------------------------------------------------------ rotations
MsgInvalidLeft == "invalid left rotation"
MsgInvalidRight == "invalid right rotation"

\* left_rotation that moves the links and leaves the two keys where they are
left_rotation_keep_keys(m, self) ==
  IF ~(has_subtrees(m[self]) /\ has_subtrees(m[m[self].right]))
  THEN [ret |-> "abort", msg |-> MsgInvalidLeft, mem |-> m]
  ELSE LET tmp_node == m[self].left
           pivot == m[self].right
       IN [ret |-> "ok", msg |-> "none",
           mem |-> [m EXCEPT ![self].left = PtrNode(pivot),
                             ![self].right = m[pivot].right,
                             ![pivot].right = m[pivot].left.ptr,
                             ![pivot].left = tmp_node]]

\* TreeNode::left_rotation: the right child becomes the left child and takes
\* over the node's key and left subtree; the node takes the child's key and
\* right subtree.  The assertion aborts the call before it writes.
left_rotation(m, self) ==
  IF ~(has_subtrees(m[self]) /\ has_subtrees(m[m[self].right]))
  THEN [ret |-> "abort", msg |-> MsgInvalidLeft, mem |-> m]
  ELSE LET tmp_node == m[self].left
           tmp_key == m[self].key
           tmp_kst == m[self].kst
           pivot == m[self].right
       IN [ret |-> "ok", msg |-> "none",
           mem |-> [m EXCEPT ![self].left = PtrNode(pivot),
                             ![self].key = m[pivot].key,
                             ![self].kst = m[pivot].kst,
                             ![self].right = m[pivot].right,
                             ![pivot].right = m[pivot].left.ptr,
                             ![pivot].left = tmp_node,
                             ![pivot].key = tmp_key,
                             ![pivot].kst = tmp_kst]]

\* TreeNode::right_rotation: the left child becomes the right child and
\* takes over the node's key and right subtree; the node takes the child's
\* key and left subtree.  The assertion aborts the call before it writes.
right_rotation(m, self) ==
  IF ~(has_subtrees(m[self]) /\ has_subtrees(m[m[self].left.ptr]))
  THEN [ret |-> "abort", msg |-> MsgInvalidRight, mem |-> m]
  ELSE LET tmp_node == m[self].right
           tmp_key == m[self].key
           tmp_kst == m[self].kst
           pivot == m[self].left.ptr
       IN [ret |-> "ok", msg |-> "none",
           mem |-> [m EXCEPT ![self].right = pivot,
                             ![self].key = m[pivot].key,
                             ![self].kst = m[pivot].kst,
                             ![self].left = m[pivot].left,
                             ![pivot].left = PtrNode(m[pivot].right),
                             ![pivot].right = tmp_node,
                             ![pivot].key = tmp_key,
                             ![pivot].kst = tmp_kst]]

\* ------------------------------------------------------------ search tree
\* the descent loop shared by get and insert: the leaf a search for key ends at
RECURSIVE descend(_, _, _)
descend(m, tmp_node, key) ==
  IF m[tmp_node].right = NULL THEN tmp_node
  ELSE IF key < m[tmp_node].key
       THEN descend(m, m[tmp_node].left.ptr, key)
       ELSE descend(m, m[tmp_node].right, key)

\* get with the final comparison weakened from == to <=
get_le(m, r, key) ==
  IF is_empty(m[r]) THEN None
  ELSE LET tmp_node == descend(m, r, key)
       IN IF key <= m[tmp_node].key THEN m[tmp_node].left.ptr ELSE None

\* SearchTree::get
get(m, r, key) ==
  IF is_empty(m[r]) THEN None
  ELSE LET tmp_node == descend(m, r, key)
       IN IF key = m[tmp_node].key THEN m[tmp_node].left.ptr ELSE None

\* insert, root empty: the root becomes the leaf (lines 79-83)
insert_root(a, m, r, len, key, value) ==
  [alloc |-> a,
   mem |-> [m EXCEPT ![r].left = PtrVal(value), ![r].key = key, ![r].kst = "init"],
   length |-> len, ret |-> None]

\* insert_swap that hands back the new value instead of the old one
insert_swap_ret_new(a, m, len, tmp_node, value) ==
  [alloc |-> a,
   mem |-> [m EXCEPT ![tmp_node].left = PtrVal(value)],
   length |-> len, ret |-> value]

\* insert_swap that acquires a node before it finds the key present
insert_swap_acquire(a, m, len, tmp_node, value) ==
  LET g1 == get_node(a, m)
  IN [alloc |-> g1.alloc,
      mem |-> [g1.mem EXCEPT ![tmp_node].left = PtrVal(value)],
      length |-> len, ret |-> m[tmp_node].left.ptr]

\* insert, key found at leaf tmp_node: the boxed values are swapped and the
\* old one is returned (lines 94-98)
insert_swap(a, m, len, tmp_node, value) ==
  [alloc |-> a,
   mem |-> [m EXCEPT ![tmp_node].left = PtrVal(value)],
   length |-> len, ret |-> m[tmp_node].left.ptr]

\* insert_split that leaves the routing key of tmp_node in place in both
\* branches
insert_split_keep_key(a, m, len, tmp_node, key, value) ==
  LET g1 == get_node(a, m)
      old_leaf == g1.node
      g2 == get_node(g1.alloc, g1.mem)
      new_leaf == g2.node
      m2 == g2.mem
      m3 == [m2 EXCEPT
               ![old_leaf].left = m[tmp_node].left,
               ![old_leaf].key = m[tmp_node].key,
               ![old_leaf].kst = "init",
               ![new_leaf].left = PtrVal(value),
               ![new_leaf].key = key,
               ![new_leaf].kst = "init"]
  IN IF m[tmp_node].key < key
     THEN [alloc |-> g2.alloc,
           mem |-> [m3 EXCEPT ![tmp_node].left = PtrNode(old_leaf),
                              ![tmp_node].right = new_leaf],
           length |-> len, ret |-> None]
     ELSE [alloc |-> g2.alloc,
           mem |-> [m3 EXCEPT ![tmp_node].left = PtrNode(new_leaf),
                              ![tmp_node].right = old_leaf,
                              ![tmp_node].kst = "dropped"],
           length |-> len, ret |-> None]

\* insert, key absent: leaf tmp_node becomes an internal node over a copy of
\* itself and the new leaf (lines 100-124)
insert_split(a, m, len, tmp_node, key, value) ==
  LET g1 == get_node(a, m)
      old_leaf == g1.node
      g2 == get_node(g1.alloc, g1.mem)
      new_leaf == g2.node
      m2 == g2.mem
  IN IF m[tmp_node].key < key
     THEN [alloc |-> g2.alloc,
           mem |-> [m2 EXCEPT
             ![old_leaf].left = m[tmp_node].left,
             ![old_leaf].key = m[tmp_node].key,
             ![old_leaf].kst = m[tmp_node].kst,
             ![new_leaf].left = PtrVal(value),
             ![new_leaf].key = key,
             ![new_leaf].kst = "init",
             ![tmp_node].left = PtrNode(old_leaf),
             ![tmp_node].right = new_leaf,
             ![tmp_node].key = key,
             ![tmp_node].kst = "init"],
           length |-> len, ret |-> None]
     ELSE [alloc |-> g2.alloc,
           mem |-> [m2 EXCEPT
             ![old_leaf].left = m[tmp_node].left,
             ![old_leaf].key = m[tmp_node].key,
             ![old_leaf].kst = "init",
             ![new_leaf].left = PtrVal(value),
             ![new_leaf].key = key,
             ![new_leaf].kst = "init",
             ![tmp_node].left = PtrNode(new_leaf),
             ![tmp_node].right = old_leaf,
             ![tmp_node].kst = "dropped"],
           length |-> len, ret |-> None]

\* SearchTree::insert; returns the allocator, heap, length and Option<V>.
\* The length is incremented on entry, before the key is looked up.
insert(a, m, r, len, key, value) ==
  LET len1 == len + 1
  IN IF is_empty(m[r])
     THEN insert_root(a, m, r, len1, key, value)
     ELSE LET tmp_node == descend(m, r, key)
          IN IF key = m[tmp_node].key
             THEN insert_swap(a, m, len1, tmp_node, value)
             ELSE insert_split(a, m, len1, tmp_node, key, value)

\* the descent loop of remove: the leaf reached (tmp), its parent (upper)
\* and its sibling (other)
RECURSIVE descend_remove(_, _, _, _, _)
descend_remove(m, upper_node, other_node, tmp_node, key) ==
  IF m[tmp_node].right = NULL
  THEN [upper |-> upper_node, other |-> other_node, tmp |-> tmp_node]
  ELSE IF key < m[tmp_node].key
       THEN descend_remove(m, tmp_node, m[tmp_node].right, m[tmp_node].left.ptr, key)
       ELSE descend_remove(m, tmp_node, m[tmp_node].left.ptr, m[tmp_node].right, key)

\* remove_root that hands the emptied root back to the pool
remove_root_return(a, m, r, len, key) ==
  IF key = m[r].key
  THEN LET r1 == return_node(a, [m EXCEPT ![r].kst = "dropped",
                                          ![r].left = PtrNull], r)
       IN [alloc |-> r1.alloc, mem |-> r1.mem,
           length |-> len - 1, ret |-> m[r].left.ptr,
           drops |-> <<[node |-> r, kst |-> m[r].kst]>>]
  ELSE [alloc |-> a, mem |-> m, length |-> len, ret |-> None, drops |-> <<>>]

\* remove, root is the only leaf (lines 134-143); drops is the log of the
\* keys the call ran assume_init_drop() on, each with the state the key
\* object was in
remove_root(a, m, r, len, key) ==
  IF key = m[r].key
  THEN [alloc |-> a,
        mem |-> [[m EXCEPT ![r].kst = "dropped"] EXCEPT ![r].left = PtrNull],
        length |-> len - 1, ret |-> m[r].left.ptr,
        drops |-> <<[node |-> r, kst |-> m[r].kst]>>]
  ELSE [alloc |-> a, mem |-> m, length |-> len, ret |-> None, drops |-> <<>>]

\* remove_leaf that leaves the parent's routing key in place
remove_leaf_keep_key(a, m, len, upper_node, other_node, tmp_node) ==
  LET m1 == [m EXCEPT
              ![upper_node].left = m[other_node].left,
              ![upper_node].right = m[other_node].right,
              ![other_node].kst = "moved",
              ![tmp_node].left = PtrNull,
              ![tmp_node].kst = "dropped"]
      r1 == return_node(a, m1, tmp_node)
      r2 == return_node(r1.alloc, r1.mem, other_node)
  IN [alloc |-> r2.alloc, mem |-> r2.mem, length |-> len - 1,
      ret |-> m[tmp_node].left.ptr,
      drops |-> <<[node |-> tmp_node, kst |-> m[tmp_node].kst]>>]

\* remove_leaf that leaves the parent's right link in place
remove_leaf_keep_right(a, m, len, upper_node, other_node, tmp_node) ==
  LET m0 == [m EXCEPT ![upper_node].kst = "dropped"]
      m1 == [m0 EXCEPT
              ![upper_node].key = m[other_node].key,
              ![upper_node].kst = m[other_node].kst,
              ![upper_node].left = m[other_node].left,
              ![other_node].kst = "moved",
              ![tmp_node].left = PtrNull,
              ![tmp_node].kst = "dropped"]
      r1 == return_node(a, m1, tmp_node)
      r2 == return_node(r1.alloc, r1.mem, other_node)
  IN [alloc |-> r2.alloc, mem |-> r2.mem, length |-> len - 1,
      ret |-> m[tmp_node].left.ptr,
      drops |-> <<[node |-> upper_node, kst |-> m[upper_node].kst],
                  [node |-> tmp_node, kst |-> m[tmp_node].kst]>>]

\* remove_leaf that returns the removed leaf alone and keeps the sibling
remove_leaf_keep_sibling(a, m, len, upper_node, other_node, tmp_node) ==
  LET m0 == [m EXCEPT ![upper_node].kst = "dropped"]
      m1 == [m0 EXCEPT
              ![upper_node].key = m[other_node].key,
              ![upper_node].kst = m[other_node].kst,
              ![upper_node].left = m[other_node].left,
              ![upper_node].right = m[other_node].right,
              ![other_node].kst = "moved",
              ![tmp_node].left = PtrNull,
              ![tmp_node].kst = "dropped"]
      r1 == return_node(a, m1, tmp_node)
  IN [alloc |-> r1.alloc, mem |-> r1.mem, length |-> len - 1,
      ret |-> m[tmp_node].left.ptr,
      drops |-> <<[node |-> upper_node, kst |-> m[upper_node].kst],
                  [node |-> tmp_node, kst |-> m[tmp_node].kst]>>]

\* remove, key found at leaf tmp_node: the parent's own key is dropped (line
\* 163, m0), the parent takes over the sibling's key object in the state it
\* is in (line 164, a bitwise move) and its links, the leaf's key is dropped
\* and the leaf and the sibling go back to the pool (lines 163-172)
remove_leaf(a, m, len, upper_node, other_node, tmp_node) ==
  LET m0 == [m EXCEPT ![upper_node].kst = "dropped"]
      m1 == [m0 EXCEPT
              ![upper_node].key = m[other_node].key,
              ![upper_node].kst = m[other_node].kst,
              ![upper_node].left = m[other_node].left,
              ![upper_node].right = m[other_node].right,
              ![other_node].kst = "moved",
              ![tmp_node].left = PtrNull,
              ![tmp_node].kst = "dropped"]
      r1 == return_node(a, m1, tmp_node)
      r2 == return_node(r1.alloc, r1.mem, other_node)
  IN [alloc |-> r2.alloc, mem |-> r2.mem, length |-> len - 1,
      ret |-> m[tmp_node].left.ptr,
      drops |-> <<[node |-> upper_node, kst |-> m[upper_node].kst],
                  [node |-> tmp_node, kst |-> m[tmp_node].kst]>>]

\* SearchTree::remove; returns the allocator, heap, length and Option<V>
remove(a, m, r, len, key) ==
  IF is_empty(m[r])
  THEN [alloc |-> a, mem |-> m, length |-> len, ret |-> None, drops |-> <<>>]
  ELSE IF is_leaf(m[r])
  THEN remove_root(a, m, r, len, key)
  ELSE
    LET d == descend_remove(m, NULL, NULL, r, key)
    IN IF key # m[d.tmp].key
       THEN [alloc |-> a, mem |-> m, length |-> len, ret |-> None, drops |-> <<>>]
       ELSE remove_leaf(a, m, len, d.upper, d.other, d.tmp)

\* ------------------------------------------------- LinkedListStack (LIFO)
\* the traversal stacks hold node addresses; the top is the last element
push(stack, x) == Append(stack, x)
peek(stack) == stack[Len(stack)]
pop(stack) == SubSeq(stack, 1, Len(stack) - 1)

\* ------------------------------------- LinkedListStack on its node pool
\* Node<T>::default(): the record a BlockAllocator<Node<T>> hands out; vst is
\* the state of the MaybeUninit value cell
DefaultListNode == [next |-> NULL, val |-> 0, vst |-> "uninit"]

\* BlockAllocator<Node<T>>::get_node: the link slot is Node::next
list_get_node(a, m) ==
  IF a.free_list # NULL
  THEN LET node == a.free_list
       IN [node |-> node,
           alloc |-> [a EXCEPT !.free_list = m[node].next],
           mem |-> [m EXCEPT ![node] = DefaultListNode]]
  ELSE LET a1 == IF a.cursor = NULL \/ a.size_left = 0 THEN new_block(a) ELSE a
           node == a1.cursor
       IN [node |-> node,
           alloc |-> [a1 EXCEPT !.cursor = @ + 1, !.size_left = @ - 1],
           mem |-> [x \in (DOMAIN m) \cup {node} |->
                      IF x = node THEN DefaultListNode ELSE m[x]]]

\* BlockAllocator<Node<T>>::return_node
list_return_node(a, m, node) ==
  [alloc |-> [a EXCEPT !.free_list = node],
   mem |-> [m EXCEPT ![node].next = a.free_list]]

\* LinkedListStack::new; mem is the heap of its nodes
LinkedListStack_new(block_size, blocks_cap) ==
  [kind |-> "LinkedListStack",
   allocator |-> new_allocator(block_size, blocks_cap), mem |-> <<>>,
   len |-> 0, head |-> NULL]

\* LinkedListStack::is_empty
LinkedListStack_is_empty(s) == s.head = NULL

\* LinkedListStack::len
LinkedListStack_len(s) == s.len

\* LinkedListStack::push
LinkedListStack_push(s, val) ==
  LET g == list_get_node(s.allocator, s.mem)
      tmp == g.node
  IN [s EXCEPT !.allocator = g.alloc,
               !.mem = [g.mem EXCEPT ![tmp].val = val, ![tmp].vst = "init",
                                     ![tmp].next = s.head],
               !.head = tmp,
               !.len = @ + 1]

\* no panic
MsgNone == "none"
MsgUnderflowPop == "underflow: popping from an empty stack"
MsgUnderflowPeek == "underflow: peeking at an empty stack"

\* pop that leaves len as it is
LinkedListStack_pop_keep_len(s) ==
  IF LinkedListStack_is_empty(s)
  THEN [ret |-> "abort", msg |-> MsgUnderflowPop, val |-> 0, stack |-> s]
  ELSE LET tmp == s.head
           r == list_return_node(s.allocator,
                                 [s.mem EXCEPT ![tmp].vst = "moved"], tmp)
       IN [ret |-> "ok", msg |-> MsgNone, val |-> s.mem[tmp].val,
           stack |-> [s EXCEPT !.head = s.mem[tmp].next,
                               !.allocator = r.alloc,
                               !.mem = r.mem]]

\* LinkedListStack::pop; returns the value and the stack, or the panic
LinkedListStack_pop(s) ==
  IF LinkedListStack_is_empty(s)
  THEN [ret |-> "abort", msg |-> MsgUnderflowPop, val |-> 0, stack |-> s]
  ELSE LET tmp == s.head
           r == list_return_node(s.allocator,
                                 [s.mem EXCEPT ![tmp].vst = "moved"], tmp)
       IN [ret |-> "ok", msg |-> MsgNone, val |-> s.mem[tmp].val,
           stack |-> [s EXCEPT !.head = s.mem[tmp].next,
                               !.allocator = r.alloc,
                               !.mem = r.mem,
                               !.len = @ - 1]]

\* LinkedListStack::peek; returns the value, or the panic
LinkedListStack_peek(s) ==
  IF LinkedListStack_is_empty(s)
  THEN [ret |-> "abort", msg |-> MsgUnderflowPeek, val |-> 0]
  ELSE [ret |-> "ok", msg |-> MsgNone, val |-> s.mem[s.head].val]

\* ------------------------------------------------- array-backed stacks
\* a MaybeUninit cell that holds no value: never written, or moved out
Uninit == 0

\* [MaybeUninit::uninit(); n], cells indexed from 1 (offset + 1)
new_array(n) == [i \in 1..n |-> Uninit]

MsgOverflow == "overflow: pushing to a full stack"

\* ArrayStack::<T, N>::new
ArrayStack_new(N) == [kind |-> "ArrayStack", stack |-> new_array(N), len |-> 0]

\* ArrayStack::is_empty
ArrayStack_is_empty(s) == s.len = 0

\* ArrayStack::len
ArrayStack_len(s) == s.len

\* ArrayStack::max_len
ArrayStack_max_len(s) == Len(s.stack)

\* push that drops the value when the array is full
ArrayStack_push_drop_full(s, val) ==
  IF s.len < Len(s.stack)
  THEN [ret |-> "ok", msg |-> MsgNone,
        stack |-> [s EXCEPT !.stack[s.len + 1] = val, !.len = @ + 1]]
  ELSE [ret |-> "ok", msg |-> MsgNone, stack |-> s]

\* ArrayStack::push: assert!(self.len < self.stack.len()), write, len += 1
ArrayStack_push(s, val) ==
  IF s.len < Len(s.stack)
  THEN [ret |-> "ok", msg |-> MsgNone,
        stack |-> [s EXCEPT !.stack[s.len + 1] = val, !.len = @ + 1]]
  ELSE [ret |-> "abort", msg |-> MsgOverflow, stack |-> s]

\* ArrayStack::pop: assert!(!self.is_empty()), len -= 1, read the cell
ArrayStack_pop(s) ==
  IF ArrayStack_is_empty(s)
  THEN [ret |-> "abort", msg |-> MsgUnderflowPop, val |-> 0, stack |-> s]
  ELSE [ret |-> "ok", msg |-> MsgNone, val |-> s.stack[s.len],
        stack |-> [s EXCEPT !.stack[s.len] = Uninit, !.len = @ - 1]]

\* ArrayStack::peek
ArrayStack_peek(s) ==
  IF ArrayStack_is_empty(s)
  THEN [ret |-> "abort", msg |-> MsgUnderflowPeek, val |-> 0]
  ELSE [ret |-> "ok", msg |-> MsgNone, val |-> s.stack[s.len]]

\* BoundedStack::new(max_size); top is kept as its offset from base
BoundedStack_new(max_size) ==
  [kind |-> "BoundedStack", base |-> new_array(max_size), top |-> 0,
   max_size |-> max_size]

\* BoundedStack::is_empty: base == top
BoundedStack_is_empty(s) == s.top = 0

\* BoundedStack::len: top.offset_from(base)
BoundedStack_len(s) == s.top

\* BoundedStack::max_len
BoundedStack_max_len(s) == s.max_size

\* BoundedStack::push: assert!(top < base.add(max_size)), write, top += 1
BoundedStack_push(s, val) ==
  IF s.top < s.max_size
  THEN [ret |-> "ok", msg |-> MsgNone,
        stack |-> [s EXCEPT !.base[s.top + 1] = val, !.top = @ + 1]]
  ELSE [ret |-> "abort", msg |-> MsgOverflow, stack |-> s]

\* BoundedStack::pop: assert!(!self.is_empty()), top -= 1, read the cell
BoundedStack_pop(s) ==
  IF BoundedStack_is_empty(s)
  THEN [ret |-> "abort", msg |-> MsgUnderflowPop, val |-> 0, stack |-> s]
  ELSE [ret |-> "ok", msg |-> MsgNone, val |-> s.base[s.top],
        stack |-> [s EXCEPT !.base[s.top] = Uninit, !.top = @ - 1]]

\* BoundedStack::peek
BoundedStack_peek(s) ==
  IF BoundedStack_is_empty(s)
  THEN [ret |-> "abort", msg |-> MsgUnderflowPeek, val |-> 0]
  ELSE [ret |-> "ok", msg |-> MsgNone, val |-> s.base[s.top]]

\* ------------------------------------------------------ UnboundedStack
\* UnboundedStack::new(chunk_size).  base is the current chunk, top its
\* offset from base; previous is the chain of saved nodes, the most recent
\* one last, and <<>> is the null pointer.
UnboundedStack_new(chunk_size) ==
  [kind |-> "UnboundedStack", base |-> new_array(chunk_size), top |-> 0,
   chunk_size |-> chunk_size, previous |-> <<>>, len |-> 0]

\* UnboundedStack::is_empty: base == top && previous.is_null()
UnboundedStack_is_empty(s) == s.top = 0 /\ s.previous = <<>>

\* UnboundedStack::len
UnboundedStack_len(s) == s.len

\* the node a push saves when the current chunk is full (lines 263-266)
saved_node(s) == [base |-> s.base, top |-> s.top, chunk_size |-> s.chunk_size]

\* push that opens a new chunk without linking the full one
UnboundedStack_push_lose_chunk(s, val) ==
  LET s1 == IF s.top = s.chunk_size
            THEN [s EXCEPT !.base = new_array(s.chunk_size), !.top = 0]
            ELSE s
  IN [ret |-> "ok", msg |-> MsgNone,
      stack |-> [s1 EXCEPT !.base[s1.top + 1] = val, !.top = @ + 1,
                           !.len = @ + 1]]

\* UnboundedStack::push: a full chunk is saved in a new node and a new chunk
\* becomes the current one; then the value is written at top
UnboundedStack_push(s, val) ==
  LET s1 == IF s.top = s.chunk_size
            THEN [s EXCEPT !.previous = Append(@, saved_node(s)),
                           !.base = new_array(s.chunk_size), !.top = 0]
            ELSE s
  IN [ret |-> "ok", msg |-> MsgNone,
      stack |-> [s1 EXCEPT !.base[s1.top + 1] = val, !.top = @ + 1,
                           !.len = @ + 1]]

\* UnboundedStack::pop: an empty current chunk is freed and the saved node
\* restored; then top steps back and the cell is read
UnboundedStack_pop(s) ==
  IF UnboundedStack_is_empty(s)
  THEN [ret |-> "abort", msg |-> MsgUnderflowPop, val |-> 0, stack |-> s]
  ELSE LET old_node == s.previous[Len(s.previous)]
           s1 == IF s.top = 0
                 THEN [s EXCEPT !.previous = SubSeq(@, 1, Len(@) - 1),
                                !.base = old_node.base,
                                !.top = old_node.top,
                                !.chunk_size = old_node.chunk_size]
                 ELSE s
       IN [ret |-> "ok", msg |-> MsgNone, val |-> s1.base[s1.top],
           stack |-> [s1 EXCEPT !.len = @ - 1, !.base[s1.top] = Uninit,
                                !.top = @ - 1]]

\* UnboundedStack::peek: the top cell of the saved chunk when the current
\* chunk is empty
UnboundedStack_peek(s) ==
  IF UnboundedStack_is_empty(s)
  THEN [ret |-> "abort", msg |-> MsgUnderflowPeek, val |-> 0]
  ELSE IF s.top = 0
       THEN LET p == s.previous[Len(s.previous)]
            IN [ret |-> "ok", msg |-> MsgNone, val |-> p.base[p.top]]
       ELSE [ret |-> "ok", msg |-> MsgNone, val |-> s.base[s.top]]

\* ----------------------------------------------------- ShadowCopyStack
\* the null pointer of an array
NoArray == <<>>

\* ShadowCopyStack::new(base_size)
ShadowCopyStack_new(base_size) ==
  [kind |-> "ShadowCopyStack", base |-> new_array(base_size), base_size |-> 0,
   max_size |-> base_size, copy |-> NoArray, copy_size |-> 0]

\* ShadowCopyStack::is_empty
ShadowCopyStack_is_empty(s) == s.base_size = 0

\* ShadowCopyStack::len
ShadowCopyStack_len(s) == s.base_size

\* the while loop of push (lines 377-386): up to additional_copies cells are
\* copied from base to copy
RECURSIVE shadow_copy(_, _)
shadow_copy(s, additional_copies) ==
  IF additional_copies > 0 /\ s.copy_size < s.base_size
  THEN shadow_copy([s EXCEPT !.copy[s.copy_size + 1] = s.base[s.copy_size + 1],
                             !.copy_size = @ + 1],
                   additional_copies - 1)
  ELSE s

\* "Copy complete" (lines 389-394, 405-410): the copy becomes the base
shadow_switch(s) ==
  [s EXCEPT !.base = s.copy, !.max_size = 2 * @, !.copy = NoArray,
            !.copy_size = 0]

\* the distance between neighbouring f32 values at n: 1 below 2^24, doubled
\* with every further bit
RECURSIVE f32_ulp(_)
f32_ulp(n) == IF n < 16777216 THEN 1 ELSE 2 * f32_ulp(n \div 2)

\* n as f32: n rounded to 24 significant bits, to the nearest value and to
\* the even one of two equally near
to_f32(n) ==
  LET ulp == f32_ulp(n)
      q == n \div ulp
      r == n % ulp
  IN IF 2 * r < ulp \/ (2 * r = ulp /\ q % 2 = 0) THEN q * ulp ELSE (q + 1) * ulp

\* the test of push (line 367): base_size as f32 >= 0.75 * max_size as f32.
\* Both sides are taken times 4; the product 0.75 * x is 3 * x / 4 rounded to
\* f32, and the rounding commutes with the factor 4.
copy_due(base_size, max_size) ==
  4 * to_f32(base_size) >= to_f32(3 * to_f32(max_size))

\* push that switches to the copy after its four cells, complete or not
ShadowCopyStack_push_switch_early(s, val) ==
  LET s1 == [s EXCEPT !.base[s.base_size + 1] = val, !.base_size = @ + 1]
  IN IF s.base_size >= Len(s.base)
     THEN [ret |-> "ub", msg |-> MsgNone, stack |-> s]
     ELSE [ret |-> "ok", msg |-> MsgNone,
           stack |->
             IF s1.copy # NoArray \/ copy_due(s1.base_size, s1.max_size)
             THEN LET s2 == IF s1.copy = NoArray
                            THEN [s1 EXCEPT !.copy = new_array(2 * s1.max_size)]
                            ELSE s1
                  IN shadow_switch(shadow_copy(s2, 4))
             ELSE s1]

\* ShadowCopyStack::push: write at base_size; from 3/4 full on, or while a
\* copy is under way, copy up to four cells and switch once the copy holds
\* base_size cells.  A write at base_size = max_size is outside the array.
ShadowCopyStack_push(s, val) ==
  LET s1 == [s EXCEPT !.base[s.base_size + 1] = val, !.base_size = @ + 1]
  IN IF s.base_size >= Len(s.base)
     THEN [ret |-> "ub", msg |-> MsgNone, stack |-> s]
     ELSE [ret |-> "ok", msg |-> MsgNone,
           stack |->
             IF s1.copy # NoArray \/ copy_due(s1.base_size, s1.max_size)
             THEN LET s2 == IF s1.copy = NoArray
                            THEN [s1 EXCEPT !.copy = new_array(2 * s1.max_size)]
                            ELSE s1
                      s3 == shadow_copy(s2, 4)
                  IN IF s3.copy_size = s3.base_size
                     THEN shadow_switch(s3)
                     ELSE s3
             ELSE s1]

\* ShadowCopyStack::pop: read the top cell; switch when the copy now holds
\* every remaining cell
ShadowCopyStack_pop(s) ==
  IF ShadowCopyStack_is_empty(s)
  THEN [ret |-> "abort", msg |-> MsgUnderflowPop, val |-> 0, stack |-> s]
  ELSE LET s1 == [s EXCEPT !.base_size = @ - 1, !.base[s.base_size] = Uninit]
       IN [ret |-> "ok", msg |-> MsgNone, val |-> s.base[s.base_size],
           stack |-> IF s1.base_size > 0 /\ s1.copy_size = s1.base_size
                     THEN shadow_switch(s1)
                     ELSE s1]

\* ShadowCopyStack::peek
ShadowCopyStack_peek(s) ==
  IF ShadowCopyStack_is_empty(s)
  THEN [ret |-> "abort", msg |-> MsgUnderflowPeek, val |-> 0]
  ELSE [ret |-> "ok", msg |-> MsgNone, val |-> s.base[s.base_size]]

\* The size fields of a ShadowCopyStack alone, for stacks too large to keep
\* their cells: has_copy tells whether copy is non-null.
ShadowCopyStack_new_sizes(base_size) ==
  [kind |-> "ShadowCopySizes", base_size |-> 0, max_size |-> base_size,
   has_copy |-> FALSE, copy_size |-> 0]

\* "Copy complete" on the size fields
shadow_switch_sizes(c) ==
  [c EXCEPT !.max_size = 2 * @, !.has_copy = FALSE, !.copy_size = 0]

\* ShadowCopyStack::push on the size fields: the loop copies up to four
\* cells, as many as base has more than copy; a write at
\* base_size = max_size is outside the array
ShadowCopyStack_push_sizes(c) ==
  LET c1 == [c EXCEPT !.base_size = @ + 1]
  IN IF c.base_size >= c.max_size
     THEN [ret |-> "ub", msg |-> MsgNone, stack |-> c]
     ELSE [ret |-> "ok", msg |-> MsgNone,
           stack |->
             IF c1.has_copy \/ copy_due(c1.base_size, c1.max_size)
             THEN LET left == c1.base_size - c1.copy_size
                      c3 == [c1 EXCEPT !.has_copy = TRUE,
                                       !.copy_size = @ + (IF left < 4 THEN left ELSE 4)]
                  IN IF c3.copy_size = c3.base_size
                     THEN shadow_switch_sizes(c3)
                     ELSE c3
             ELSE c1]

\* ShadowCopyStack::pop on the size fields
ShadowCopyStack_pop_sizes(c) ==
  IF c.base_size = 0
  THEN [ret |-> "abort", msg |-> MsgUnderflowPop, stack |-> c]
  ELSE LET c1 == [c EXCEPT !.base_size = @ - 1]
       IN [ret |-> "ok", msg |-> MsgNone,
           stack |-> IF c1.base_size > 0 /\ c1.copy_size = c1.base_size
                     THEN shadow_switch_sizes(c1)
                     ELSE c1]

\* ---------------------------------------------------------------- queues
MsgOverflowEnqueue == "overflow: enqueuing to a full queue"
MsgUnderflowDequeue == "underflow: dequeuing from an empty queue"
MsgUnderflowQueuePeek == "underflow: peeking at an empty queue"

\* BoundedQueue::new(max_size); front and rear are offsets into base
BoundedQueue_new(max_size) ==
  [kind |-> "BoundedQueue", base |-> new_array(max_size), front |-> 0,
   rear |-> 0, max_size |-> max_size, len |-> 0]

\* BoundedQueue::is_empty
BoundedQueue_is_empty(q) == q.len = 0

\* BoundedQueue::len
BoundedQueue_len(q) == q.len

\* BoundedQueue::max_len
BoundedQueue_max_len(q) == q.max_size

\* enqueue whose rear runs on past the end of the buffer; a write there is
\* outside the queue
BoundedQueue_enqueue_no_wrap(q, val) ==
  IF q.len < q.max_size
  THEN [ret |-> "ok", msg |-> MsgNone,
        queue |-> [q EXCEPT !.base = [i \in DOMAIN q.base |->
                                        IF i = q.rear + 1 THEN val ELSE q.base[i]],
                            !.rear = q.rear + 1,
                            !.len = @ + 1]]
  ELSE [ret |-> "abort", msg |-> MsgOverflowEnqueue, queue |-> q]

\* BoundedQueue::enqueue: assert!(len < max_size), write at rear,
\* rear = (rear + 1) % max_size
BoundedQueue_enqueue(q, val) ==
  IF q.len < q.max_size
  THEN [ret |-> "ok", msg |-> MsgNone,
        queue |-> [q EXCEPT !.base[q.rear + 1] = val,
                            !.rear = (q.rear + 1) % q.max_size,
                            !.len = @ + 1]]
  ELSE [ret |-> "abort", msg |-> MsgOverflowEnqueue, queue |-> q]

\* BoundedQueue::dequeue: assert!(!is_empty()), read at front,
\* front = (front + 1) % max_size
BoundedQueue_dequeue(q) ==
  IF BoundedQueue_is_empty(q)
  THEN [ret |-> "abort", msg |-> MsgUnderflowDequeue, val |-> 0, queue |-> q]
  ELSE [ret |-> "ok", msg |-> MsgNone, val |-> q.base[q.front + 1],
        queue |-> [q EXCEPT !.base[q.front + 1] = Uninit,
                            !.front = (q.front + 1) % q.max_size,
                            !.len = @ - 1]]

\* BoundedQueue::peek
BoundedQueue_peek(q) ==
  IF BoundedQueue_is_empty(q)
  THEN [ret |-> "abort", msg |-> MsgUnderflowQueuePeek, val |-> 0]
  ELSE [ret |-> "ok", msg |-> MsgNone, val |-> q.base[q.front + 1]]

\* LinkedListQueue::new; mem is the heap of its nodes
LinkedListQueue_new(block_size, blocks_cap) ==
  [kind |-> "LinkedListQueue",
   allocator |-> new_allocator(block_size, blocks_cap), mem |-> <<>>,
   len |-> 0, remove |-> NULL, insert |-> NULL]

\* LinkedListQueue::is_empty
LinkedListQueue_is_empty(q) == q.len = 0

\* LinkedListQueue::len
LinkedListQueue_len(q) == q.len

\* LinkedListQueue::enqueue: the new node is linked after insert, or becomes
\* both ends of an empty queue
LinkedListQueue_enqueue(q, val) ==
  LET g == list_get_node(q.allocator, q.mem)
      tmp == g.node
      m1 == [g.mem EXCEPT ![tmp].val = val, ![tmp].vst = "init"]
  IN [ret |-> "ok", msg |-> MsgNone,
      queue |->
        IF ~LinkedListQueue_is_empty(q)
        THEN [q EXCEPT !.allocator = g.alloc,
                       !.mem = [m1 EXCEPT ![q.insert].next = tmp],
                       !.insert = tmp, !.len = @ + 1]
        ELSE [q EXCEPT !.allocator = g.alloc, !.mem = m1,
                       !.remove = tmp, !.insert = tmp, !.len = @ + 1]]

\* LinkedListQueue::dequeue: unlink the node at remove, read its value and
\* return it to the pool
LinkedListQueue_dequeue(q) ==
  IF LinkedListQueue_is_empty(q)
  THEN [ret |-> "abort", msg |-> MsgUnderflowDequeue, val |-> 0, queue |-> q]
  ELSE LET tmp == q.remove
           r == list_return_node(q.allocator,
                                 [q.mem EXCEPT ![tmp].vst = "moved"], tmp)
       IN [ret |-> "ok", msg |-> MsgNone, val |-> q.mem[tmp].val,
           queue |-> [q EXCEPT !.remove = q.mem[tmp].next,
                               !.allocator = r.alloc, !.mem = r.mem,
                               !.len = @ - 1]]

\* LinkedListQueue::peek
LinkedListQueue_peek(q) ==
  IF LinkedListQueue_is_empty(q)
  THEN [ret |-> "abort", msg |-> MsgUnderflowQueuePeek, val |-> 0]
  ELSE [ret |-> "ok", msg |-> MsgNone, val |-> q.mem[q.remove].val]

\* CircularLinkedQueue::new: entry is a node that points to itself
CircularLinkedQueue_new(block_size, blocks_cap) ==
  LET g == list_get_node(new_allocator(block_size, blocks_cap), <<>>)
      entry == g.node
  IN [kind |-> "CircularLinkedQueue", allocator |-> g.alloc,
      mem |-> [g.mem EXCEPT ![entry].next = entry], len |-> 0,
      entry |-> entry]

\* is_empty that looks for a null link where the ring closes on itself
CircularLinkedQueue_is_empty_null(q) == q.mem[q.entry].next = NULL

\* CircularLinkedQueue::is_empty: entry == (*entry).next
CircularLinkedQueue_is_empty(q) == q.entry = q.mem[q.entry].next

\* CircularLinkedQueue::len
CircularLinkedQueue_len(q) == q.len

\* CircularLinkedQueue::enqueue: the new node follows the old entry and
\* becomes the entry
CircularLinkedQueue_enqueue(q, val) ==
  LET g == list_get_node(q.allocator, q.mem)
      node == g.node
      tmp == q.entry
      m1 == [g.mem EXCEPT ![node].val = val, ![node].vst = "init"]
      m2 == [m1 EXCEPT ![node].next = m1[tmp].next]
      m3 == [m2 EXCEPT ![tmp].next = node]
  IN [ret |-> "ok", msg |-> MsgNone,
      queue |-> [q EXCEPT !.allocator = g.alloc, !.mem = m3,
                          !.entry = node, !.len = @ + 1]]

\* dequeue that leaves entry where it is when the last node goes
CircularLinkedQueue_dequeue_keep_entry(q) ==
  IF CircularLinkedQueue_is_empty(q)
  THEN [ret |-> "abort", msg |-> MsgUnderflowDequeue, val |-> 0, queue |-> q]
  ELSE LET first == q.mem[q.entry].next
           tmp == q.mem[first].next
           m1 == [q.mem EXCEPT ![first].next = q.mem[tmp].next]
           r == list_return_node(q.allocator,
                                 [m1 EXCEPT ![tmp].vst = "moved"], tmp)
       IN [ret |-> "ok", msg |-> MsgNone, val |-> m1[tmp].val,
           queue |-> [q EXCEPT !.allocator = r.alloc, !.mem = r.mem,
                               !.len = @ - 1]]

\* CircularLinkedQueue::dequeue: unlink the node after entry.next; when it
\* is the entry, entry moves on to entry.next
CircularLinkedQueue_dequeue(q) ==
  IF CircularLinkedQueue_is_empty(q)
  THEN [ret |-> "abort", msg |-> MsgUnderflowDequeue, val |-> 0, queue |-> q]
  ELSE LET first == q.mem[q.entry].next
           tmp == q.mem[first].next
           m1 == [q.mem EXCEPT ![first].next = q.mem[tmp].next]
           entry == IF tmp = q.entry THEN m1[tmp].next ELSE q.entry
           r == list_return_node(q.allocator,
                                 [m1 EXCEPT ![tmp].vst = "moved"], tmp)
       IN [ret |-> "ok", msg |-> MsgNone, val |-> m1[tmp].val,
           queue |-> [q EXCEPT !.entry = entry, !.allocator = r.alloc,
                               !.mem = r.mem, !.len = @ - 1]]

\* CircularLinkedQueue::peek
CircularLinkedQueue_peek(q) ==
  IF CircularLinkedQueue_is_empty(q)
  THEN [ret |-> "abort", msg |-> MsgUnderflowQueuePeek, val |-> 0]
  ELSE [ret |-> "ok", msg |-> MsgNone,
        val |-> q.mem[q.mem[q.mem[q.entry].next].next].val]

\* BiNode<T>::default()
DefaultBiNode == [next |-> NULL, prev |-> NULL, val |-> 0, vst |-> "uninit"]

\* BlockAllocator<BiNode<T>>::get_node: the link slot is BiNode::next
bi_get_node(a, m) ==
  IF a.free_list # NULL
  THEN LET node == a.free_list
       IN [node |-> node,
           alloc |-> [a EXCEPT !.free_list = m[node].next],
           mem |-> [m EXCEPT ![node] = DefaultBiNode]]
  ELSE LET a1 == IF a.cursor = NULL \/ a.size_left = 0 THEN new_block(a) ELSE a
           node == a1.cursor
       IN [node |-> node,
           alloc |-> [a1 EXCEPT !.cursor = @ + 1, !.size_left = @ - 1],
           mem |-> [x \in (DOMAIN m) \cup {node} |->
                      IF x = node THEN DefaultBiNode ELSE m[x]]]

\* BlockAllocator<BiNode<T>>::return_node
bi_return_node(a, m, node) ==
  [alloc |-> [a EXCEPT !.free_list = node],
   mem |-> [m EXCEPT ![node].next = a.free_list]]

\* DoubleLinkedQueue::new: entry is its own next and prev
DoubleLinkedQueue_new(block_size, blocks_cap) ==
  LET g == bi_get_node(new_allocator(block_size, blocks_cap), <<>>)
      entry == g.node
  IN [kind |-> "DoubleLinkedQueue", allocator |-> g.alloc,
      mem |-> [g.mem EXCEPT ![entry].next = entry, ![entry].prev = entry],
      len |-> 0, entry |-> entry]

\* DoubleLinkedQueue::is_empty: entry == (*entry).next
DoubleLinkedQueue_is_empty(q) == q.entry = q.mem[q.entry].next

\* DoubleLinkedQueue::len
DoubleLinkedQueue_len(q) == q.len

\* DoubleLinkedQueue::enqueue: the new node goes between entry and
\* entry.next
DoubleLinkedQueue_enqueue(q, val) ==
  LET g == bi_get_node(q.allocator, q.mem)
      node == g.node
      m1 == [g.mem EXCEPT ![node].val = val, ![node].vst = "init"]
      m2 == [m1 EXCEPT ![node].next = m1[q.entry].next]
      m3 == [m2 EXCEPT ![q.entry].next = node]
      m4 == [m3 EXCEPT ![m3[node].next].prev = node]
      m5 == [m4 EXCEPT ![node].prev = q.entry]
  IN [ret |-> "ok", msg |-> MsgNone,
      queue |-> [q EXCEPT !.allocator = g.alloc, !.mem = m5, !.len = @ + 1]]

\* DoubleLinkedQueue::dequeue: unlink the node at entry.prev, the oldest one
DoubleLinkedQueue_dequeue(q) ==
  IF DoubleLinkedQueue_is_empty(q)
  THEN [ret |-> "abort", msg |-> MsgUnderflowDequeue, val |-> 0, queue |-> q]
  ELSE LET tmp == q.mem[q.entry].prev
           m1 == [q.mem EXCEPT ![q.mem[tmp].prev].next = q.entry]
           m2 == [m1 EXCEPT ![q.entry].prev = m1[tmp].prev]
           r == bi_return_node(q.allocator,
                               [m2 EXCEPT ![tmp].vst = "moved"], tmp)
       IN [ret |-> "ok", msg |-> MsgNone, val |-> q.mem[tmp].val,
           queue |-> [q EXCEPT !.allocator = r.alloc, !.mem = r.mem,
                               !.len = @ - 1]]

\* DoubleLinkedQueue::peek
DoubleLinkedQueue_peek(q) ==
  IF DoubleLinkedQueue_is_empty(q)
  THEN [ret |-> "abort", msg |-> MsgUnderflowQueuePeek, val |-> 0]
  ELSE [ret |-> "ok", msg |-> MsgNone, val |-> q.mem[q.mem[q.entry].prev].val]

\* ------------------------------------------------------------ iterators
NoIter == [kind |-> "none", iter_stack |-> <<>>, rev_stack |-> <<>>,
           last_iter_key |-> None, last_rev_key |-> None,
           start |-> 0, end |-> 0, fwd_none |-> FALSE, rev_none |-> FALSE]

\* SearchTree::iter
iter(m, r) ==
  [kind |-> "iter",
   iter_stack |-> IF ~is_empty(m[r]) THEN <<r>> ELSE <<>>,
   rev_stack |-> IF ~is_empty(m[r]) THEN <<r>> ELSE <<>>,
   last_iter_key |-> None, last_rev_key |-> None, start |-> 0, end |-> 0,
   fwd_none |-> FALSE, rev_none |-> FALSE]

\* SearchTree::find
find(m, r, lo, hi) ==
  [kind |-> "find", iter_stack |-> <<r>>, rev_stack |-> <<r>>,
   last_iter_key |-> None, last_rev_key |-> None, start |-> lo, end |-> hi,
   fwd_none |-> FALSE, rev_none |-> FALSE]

RetNone(stack) == [stack |-> stack, ret |-> "None", key |-> 0, val |-> 0]
RetSome(stack, n) == [stack |-> stack, ret |-> "Some", key |-> n.key, val |-> n.left.ptr]
RetAbort(stack) == [stack |-> stack, ret |-> "abort", key |-> 0, val |-> 0]

\* next() with the two children pushed left first, right on top
iter_expand_right_first(rest, n) == push(push(rest, n.left.ptr), n.right)

\* SearchTreeIter::next at an internal node: push right, then left, so that
\* the left child is popped next (lines 370-371)
iter_expand(rest, n) == push(push(rest, n.right), n.left.ptr)

\* the forward frontier test with < in place of <=
iter_leaf_strict(rest, n, last_rev_key) ==
  IF last_rev_key # None /\ last_rev_key < n.key
  THEN RetNone(rest)
  ELSE RetSome(rest, n)

\* SearchTreeIter::next at a leaf: None once the reverse end has yielded this
\* key or a smaller one, else the leaf is yielded (lines 359-368)
iter_leaf(rest, n, last_rev_key) ==
  IF last_rev_key # None /\ last_rev_key <= n.key
  THEN RetNone(rest)
  ELSE RetSome(rest, n)

\* SearchTreeIter::next: the loop over iter_stack
RECURSIVE iter_next(_, _, _)
iter_next(m, iter_stack, last_rev_key) ==
  IF iter_stack = <<>> THEN RetNone(iter_stack)
  ELSE LET node == peek(iter_stack)
           rest == pop(iter_stack)
       IN IF is_leaf(m[node])
          THEN iter_leaf(rest, m[node], last_rev_key)
          ELSE iter_next(m, iter_expand(rest, m[node]), last_rev_key)

\* next_back() with the two children pushed right first, left on top
iter_back_expand_left_first(rest, n) == push(push(rest, n.right), n.left.ptr)

\* SearchTreeIter::next_back at an internal node: push left, then right
\* (lines 399-400)
iter_back_expand(rest, n) == push(push(rest, n.left.ptr), n.right)

\* next_back() that yields whatever leaf it pops
iter_back_leaf_unchecked(rest, n, last_iter_key) == RetSome(rest, n)

\* SearchTreeIter::next_back at a leaf: None once the forward end has yielded
\* this key or a greater one, else the leaf is yielded (lines 388-397)
iter_back_leaf(rest, n, last_iter_key) ==
  IF last_iter_key # None /\ last_iter_key >= n.key
  THEN RetNone(rest)
  ELSE RetSome(rest, n)

\* SearchTreeIter::next_back: the loop over rev_stack
RECURSIVE iter_next_back(_, _, _)
iter_next_back(m, rev_stack, last_iter_key) ==
  IF rev_stack = <<>> THEN RetNone(rev_stack)
  ELSE LET node == peek(rev_stack)
           rest == pop(rev_stack)
       IN IF is_leaf(m[node])
          THEN iter_back_leaf(rest, m[node], last_iter_key)
          ELSE iter_next_back(m, iter_back_expand(rest, m[node]), last_iter_key)

\* the range test with the end included
in_range_closed(lo, hi, key) == lo <= key /\ key <= hi

\* the range test of SearchTreeFind at a leaf: start <= key < end
\* (lines 432 and 468)
in_range(lo, hi, key) == lo <= key /\ key < hi

\* SearchTreeFind::next at an in-range leaf (lines 433-441)
find_leaf(rest, n, last_rev_key) ==
  IF last_rev_key # None /\ last_rev_key <= n.key
  THEN RetNone(rest)
  ELSE RetSome(rest, n)

\* the reverse frontier test with > in place of >=
find_back_leaf_strict(rest, n, last_iter_key) ==
  IF last_iter_key # None /\ last_iter_key > n.key
  THEN RetNone(rest)
  ELSE RetSome(rest, n)

\* SearchTreeFind::next_back at an in-range leaf (lines 469-477)
find_back_leaf(rest, n, last_iter_key) ==
  IF last_iter_key # None /\ last_iter_key >= n.key
  THEN RetNone(rest)
  ELSE RetSome(rest, n)

\* SearchTreeFind::next: the loop over iter_stack.  Dereferencing a null
\* node and as_node() on a field that is not a Node abort the call.
RECURSIVE find_next(_, _, _, _, _)
find_next(m, iter_stack, last_rev_key, lo, hi) ==
  IF iter_stack = <<>> THEN RetNone(iter_stack)
  ELSE LET node == peek(iter_stack)
           rest == pop(iter_stack)
       IN IF node = NULL THEN RetAbort(rest)
          ELSE IF is_leaf(m[node])
          THEN IF in_range(lo, hi, m[node].key)
               THEN find_leaf(rest, m[node], last_rev_key)
               ELSE find_next(m, rest, last_rev_key, lo, hi)
          ELSE IF hi <= m[node].key
          THEN IF m[node].left.tag # "Node" THEN RetAbort(rest)
               ELSE find_next(m, push(rest, m[node].left.ptr), last_rev_key, lo, hi)
          ELSE IF m[node].key <= lo
          THEN find_next(m, push(rest, m[node].right), last_rev_key, lo, hi)
          ELSE IF m[node].left.tag # "Node" THEN RetAbort(push(rest, m[node].right))
               ELSE find_next(m, push(push(rest, m[node].right), m[node].left.ptr),
                              last_rev_key, lo, hi)

\* SearchTreeFind::next_back: the loop over rev_stack
RECURSIVE find_next_back(_, _, _, _, _)
find_next_back(m, rev_stack, last_iter_key, lo, hi) ==
  IF rev_stack = <<>> THEN RetNone(rev_stack)
  ELSE LET node == peek(rev_stack)
           rest == pop(rev_stack)
       IN IF node = NULL THEN RetAbort(rest)
          ELSE IF is_leaf(m[node])
          THEN IF in_range(lo, hi, m[node].key)
               THEN find_back_leaf(rest, m[node], last_iter_key)
               ELSE find_next_back(m, rest, last_iter_key, lo, hi)
          ELSE IF hi <= m[node].key
          THEN IF m[node].left.tag # "Node" THEN RetAbort(rest)
               ELSE find_next_back(m, push(rest, m[node].left.ptr), last_iter_key, lo, hi)
          ELSE IF m[node].key <= lo
          THEN find_next_back(m, push(rest, m[node].right), last_iter_key, lo, hi)
          ELSE IF m[node].left.tag # "Node" THEN RetAbort(rest)
               ELSE find_next_back(m, push(push(rest, m[node].left.ptr), m[node].right),
                                   last_iter_key, lo, hi)

\* ------------------------------------------------------------ from_sorted
\* usize::ilog2 for n >= 1
RECURSIVE ilog2(_)
ilog2(n) == IF n <= 1 THEN 0 ELSE 1 + ilog2(n \div 2)

\* the locals of from_sorted's while loop are kept in a record b: the bounded
\* work stack and its capacity, the allocator and heap, the position in the
\* input, prev_key, is_valid, and whether a push overflowed the stack.

\* the split with one leaf on the left and all the others on the right
build_split_uneven(b, current, rest) ==
  LET g1 == get_node(b.alloc, b.mem)
      g2 == get_node(g1.alloc, g1.mem)
      left == [node1 |-> g1.node, node2 |-> current.node2, number |-> 1]
      right == [node1 |-> g2.node, node2 |-> current.node1,
                number |-> current.number - left.number]
      m2 == [g2.mem EXCEPT ![current.node1].left = PtrNode(left.node1),
                           ![current.node1].right = right.node1]
  IN IF Len(rest) + 2 > b.max_size
     THEN [b EXCEPT !.overflow = TRUE, !.alloc = g2.alloc, !.mem = m2]
     ELSE [b EXCEPT !.stack = push(push(rest, right), left),
                    !.alloc = g2.alloc, !.mem = m2]

\* from_sorted, current.number > 1: two empty nodes are acquired and linked
\* below current.node1, the left one takes number / 2 leaves (lines 256-269)
build_split(b, current, rest) ==
  LET g1 == get_node(b.alloc, b.mem)
      g2 == get_node(g1.alloc, g1.mem)
      left == [node1 |-> g1.node, node2 |-> current.node2,
               number |-> current.number \div 2]
      right == [node1 |-> g2.node, node2 |-> current.node1,
                number |-> current.number - left.number]
      m2 == [g2.mem EXCEPT ![current.node1].left = PtrNode(left.node1),
                           ![current.node1].right = right.node1]
  IN IF Len(rest) + 2 > b.max_size
     THEN [b EXCEPT !.overflow = TRUE, !.alloc = g2.alloc, !.mem = m2]
     ELSE [b EXCEPT !.stack = push(push(rest, right), left),
                    !.alloc = g2.alloc, !.mem = m2]

\* the leaf step that does not write the routing key of node2
build_leaf_no_route(b, current, rest, input) ==
  LET key == input[b.pos][1]
      value == input[b.pos][2]
      m2 == [b.mem EXCEPT ![current.node1].left = PtrVal(value),
                          ![current.node1].key = key,
                          ![current.node1].kst = "init",
                          ![current.node1].right = NULL]
      valid == IF b.prev_key # None /\ b.prev_key >= key
               THEN FALSE ELSE b.is_valid
  IN [b EXCEPT !.stack = rest, !.mem = m2, !.pos = @ + 1,
               !.prev_key = key, !.is_valid = valid]

\* the leaf step that accepts a key equal to the previous one
build_leaf_gt(b, current, rest, input) ==
  LET key == input[b.pos][1]
      value == input[b.pos][2]
      m1 == IF current.node2 # NULL
            THEN [b.mem EXCEPT ![current.node2].key = key,
                               ![current.node2].kst = "init"]
            ELSE b.mem
      m2 == [m1 EXCEPT ![current.node1].left = PtrVal(value),
                       ![current.node1].key = key,
                       ![current.node1].kst = "init",
                       ![current.node1].right = NULL]
      valid == IF b.prev_key # None /\ b.prev_key > key
               THEN FALSE ELSE b.is_valid
  IN [b EXCEPT !.stack = rest, !.mem = m2, !.pos = @ + 1,
               !.prev_key = key, !.is_valid = valid]

\* from_sorted, current.number = 1: the next input item fills the leaf
\* current.node1, its key is copied to the routing node current.node2, and
\* is_valid is cleared when prev_key >= key (lines 271-290)
build_leaf(b, current, rest, input) ==
  LET key == input[b.pos][1]
      value == input[b.pos][2]
      m1 == IF current.node2 # NULL
            THEN [b.mem EXCEPT ![current.node2].key = key,
                               ![current.node2].kst = "init"]
            ELSE b.mem
      m2 == [m1 EXCEPT ![current.node1].left = PtrVal(value),
                       ![current.node1].key = key,
                       ![current.node1].kst = "init",
                       ![current.node1].right = NULL]
      valid == IF b.prev_key # None /\ b.prev_key >= key
               THEN FALSE ELSE b.is_valid
  IN [b EXCEPT !.stack = rest, !.mem = m2, !.pos = @ + 1,
               !.prev_key = key, !.is_valid = valid]

\* the split that gives the larger half of the leaves to the left
build_step_left_heavy(b, input) ==
  LET current == peek(b.stack)
      rest == pop(b.stack)
      g1 == get_node(b.alloc, b.mem)
      g2 == get_node(g1.alloc, g1.mem)
      left == [node1 |-> g1.node, node2 |-> current.node2,
               number |-> current.number - (current.number \div 2)]
      right == [node1 |-> g2.node, node2 |-> current.node1,
                number |-> current.number - left.number]
      m2 == [g2.mem EXCEPT ![current.node1].left = PtrNode(left.node1),
                           ![current.node1].right = right.node1]
  IN IF current.number > 1
     THEN IF Len(rest) + 2 > b.max_size
          THEN [b EXCEPT !.overflow = TRUE, !.alloc = g2.alloc, !.mem = m2]
          ELSE [b EXCEPT !.stack = push(push(rest, right), left),
                         !.alloc = g2.alloc, !.mem = m2]
     ELSE build_leaf(b, current, rest, input)

\* one turn of the while loop of from_sorted: pop current, then split it or
\* fill it (lines 255-290)
build_step(b, input) ==
  LET current == peek(b.stack)
      rest == pop(b.stack)
  IN IF current.number > 1
     THEN build_split(b, current, rest)
     ELSE build_leaf(b, current, rest, input)

\* the while loop of from_sorted (lines 252-291); a push on the full work
\* stack ends it with a panic
RECURSIVE build(_, _)
build(b, input) ==
  IF b.overflow \/ b.stack = <<>> THEN b
  ELSE build(build_step(b, input), input)

\* the panic messages of from_sorted: usize::ilog2 of 0, BoundedStack::push
\* on a full stack, and the validity check after the loop
MsgIlog2 == "argument of integer logarithm must be positive"
MsgNotSorted == "iterator keys are not sorted or unique"

\* from_sorted before its loop, for an input of length >= 1: the work stack
\* of capacity ilog2(length) + 1 holds the root, which expands to length
\* leaves (lines 238-248)
build_start(len) ==
  LET g == get_node(new_allocator(DEFAULT_BLOCK_SIZE, DEFAULT_BLOCK_CAP), <<>>)
  IN [stack |-> <<[node1 |-> g.node, node2 |-> NULL, number |-> len]>>,
      max_size |-> ilog2(len) + 1,
      alloc |-> g.alloc, mem |-> g.mem, pos |-> 1,
      prev_key |-> None, is_valid |-> TRUE, overflow |-> FALSE]

\* SearchTree::from_sorted; input is a sequence of <<key, value>> pairs.
\* ret is "ok" when a tree is returned and "abort" when the call panics with
\* message msg.
from_sorted(input) ==
  LET len == Len(input)
  IN IF len = 0
     THEN [ret |-> "abort", msg |-> MsgIlog2,
           alloc |-> new_allocator(DEFAULT_BLOCK_SIZE, DEFAULT_BLOCK_CAP),
           mem |-> <<>>, root |-> NULL, length |-> 0]
     ELSE
       LET b0 == build_start(len)
           b == build(b0, input)
       IN [ret |-> IF b.overflow \/ ~b.is_valid THEN "abort" ELSE "ok",
           msg |-> IF b.overflow THEN MsgOverflow
                   ELSE IF ~b.is_valid THEN MsgNotSorted ELSE MsgNone,
           alloc |-> b.alloc, mem |-> b.mem, root |-> peek(b0.stack).node1,
           length |-> len]

\* ------------------------------------------------------------ teardown
\* The walk of Drop for SearchTree is kept in a record d: the allocator and
\* heap, the current node, the values dropped so far (each with the leaf it
\* was taken from), the nodes whose key was dropped so far (each with the
\* state its key cell was in), and whether as_val() panicked.

\* the leaf step that returns the leaf without dropping its value
drop_left_leaf_keep_val(d) ==
  LET m == d.mem
      current_node == d.current
      leaf_node == m[current_node].left.ptr
      m1 == [m EXCEPT ![leaf_node].kst = "dropped"]
      r1 == return_node(d.alloc, m1, leaf_node)
      tmp == r1.mem[current_node].right
      m2 == [r1.mem EXCEPT ![current_node].kst = "dropped"]
      r2 == return_node(r1.alloc, m2, current_node)
  IN [d EXCEPT !.alloc = r2.alloc, !.mem = r2.mem, !.current = tmp,
               !.keys = Append(Append(@, [node |-> leaf_node, kst |-> m[leaf_node].kst]),
                               [node |-> current_node, kst |-> m[current_node].kst])]

\* Drop, the left child of current_node is a leaf: its value and key are
\* dropped and it is returned to the pool, then the key of current_node is
\* dropped, current_node is returned and the walk moves to its right child
\* (lines 315-325)
drop_left_leaf(d) ==
  LET m == d.mem
      current_node == d.current
      leaf_node == m[current_node].left.ptr
      m1 == [m EXCEPT ![leaf_node].kst = "dropped"]
      r1 == return_node(d.alloc, m1, leaf_node)
      tmp == r1.mem[current_node].right
      m2 == [r1.mem EXCEPT ![current_node].kst = "dropped"]
      r2 == return_node(r1.alloc, m2, current_node)
  IN [d EXCEPT !.alloc = r2.alloc, !.mem = r2.mem, !.current = tmp,
               !.vals = Append(@, [node |-> leaf_node, val |-> m[leaf_node].left.ptr]),
               !.keys = Append(Append(@, [node |-> leaf_node, kst |-> m[leaf_node].kst]),
                               [node |-> current_node, kst |-> m[current_node].kst])]

\* the rotation that relinks the two nodes and stays at current_node
drop_rotate_stay(d) ==
  LET m == d.mem
      current_node == d.current
      tmp == m[current_node].left.ptr
  IN [d EXCEPT !.mem = [m EXCEPT ![current_node].left = PtrNode(m[tmp].right),
                                 ![tmp].right = current_node]]

\* Drop, the left child of current_node is internal: current_node takes the
\* child's right subtree as its left one, becomes the child's right child,
\* and the walk continues at the child (lines 326-331)
drop_rotate(d) ==
  LET m == d.mem
      current_node == d.current
      tmp == m[current_node].left.ptr
  IN [d EXCEPT !.mem = [m EXCEPT ![current_node].left = PtrNode(m[tmp].right),
                                 ![tmp].right = current_node],
               !.current = tmp]

\* Drop, one turn of the while loop: release the left leaf and the current
\* node, or rotate (lines 315-331)
drop_step(d) ==
  IF is_leaf(d.mem[d.mem[d.current].left.ptr])
  THEN drop_left_leaf(d)
  ELSE drop_rotate(d)

\* Drop, the while loop (lines 314-332)
RECURSIVE drop_walk(_)
drop_walk(d) ==
  IF has_subtrees(d.mem[d.current])
  THEN drop_walk(drop_step(d))
  ELSE d

\* Drop, after the loop: the key and the value of the node the walk ended at
\* are dropped; as_val() panics when its left field is not a Val
\* (lines 333-335)
drop_last(d) ==
  LET n == d.mem[d.current]
      d1 == [d EXCEPT !.mem = [d.mem EXCEPT ![d.current].kst = "dropped"],
                      !.keys = Append(@, [node |-> d.current, kst |-> n.kst])]
  IN IF n.left.tag # "Val" THEN [d1 EXCEPT !.ret = "abort"]
     ELSE [d1 EXCEPT !.vals = Append(@, [node |-> d.current, val |-> n.left.ptr])]

\* Drop for SearchTree: an empty root is returned to the pool, otherwise the
\* walk runs from the root
drop_tree(a, m, r) ==
  IF is_empty(m[r])
  THEN LET r1 == return_node(a, m, r)
       IN [alloc |-> r1.alloc, mem |-> r1.mem, current |-> r,
           vals |-> <<>>, keys |-> <<>>, ret |-> "ok"]
  ELSE drop_last(drop_walk([alloc |-> a, mem |-> m, current |-> r,
                            vals |-> <<>>, keys |-> <<>>, ret |-> "ok"]))

\* SearchTree::new
new_tree(block_size, blocks_cap) ==
  LET g == get_node(new_allocator(block_size, blocks_cap), <<>>)
  IN [alloc |-> g.alloc, mem |-> g.mem, root |-> g.node, length |-> 0]

\* ------------------------------------------------------------ the program
\* nothing yielded yet: the items yielded by next() and by next_back(), each
\* in call order
NoYield == [fwd |-> <<>>, rev |-> <<>>]

Op(op, key, val, ret) == [op |-> op, key |-> key, val |-> val, ret |-> ret]

\* the inputs of from_sorted: any sequence of up to MaxKey keys, sorted or
\* not, each paired with the same value
Inputs ==
  UNION {{[i \in 1..n |-> <<ks[i], v>>] : ks \in [1..n -> Keys], v \in Vals} :
         n \in 0..MaxKey}

\* the reference map of a strictly ascending input
InputMap(input) ==
  [k \in Keys |-> IF \E i \in DOMAIN input : input[i][1] = k
                  THEN input[CHOOSE i \in DOMAIN input : input[i][1] = k][2]
                  ELSE None]

\* no container has been constructed yet
NoCont == [kind |-> "none"]

\* no tree has been constructed yet
Init ==
  /\ allocator = new_allocator(NewBlockSize, NewBlocksCap)
  /\ mem = <<>>
  /\ root = NULL
  /\ length = 0
  /\ bind = [k \in Keys |-> None]
  /\ ops = 0
  /\ lastOp = Op("start", 0, 0, 0)
  /\ it = NoIter
  /\ yielded = NoYield
  /\ outstanding = {}
  /\ cont = NoCont
  /\ refseq = <<>>
  /\ hist = {}

\* let mut tree = SearchTree::new(NewBlockSize, NewBlocksCap)
New ==
  /\ root = NULL
  /\ lastOp.op = "start"
  /\ LET g == get_node(new_allocator(NewBlockSize, NewBlocksCap), <<>>)
     IN /\ allocator' = g.alloc
        /\ mem' = g.mem
        /\ root' = g.node
  /\ lastOp' = Op("new", 0, 0, 0)
  /\ UNCHANGED <<length, bind, ops, it, yielded, others>>

\* let mut tree = SearchTree::from_sorted(input); when the call panics no
\* tree is returned
FromSorted(input) ==
  /\ root = NULL
  /\ lastOp.op = "start"
  /\ LET r == from_sorted(input)
     IN IF r.ret = "ok"
        THEN /\ allocator' = r.alloc
             /\ mem' = r.mem
             /\ root' = r.root
             /\ length' = r.length
             /\ bind' = InputMap(input)
             /\ lastOp' = Op("from_sorted", Len(input), 0, 1)
        ELSE /\ lastOp' = Op("from_sorted", Len(input), 0, -1)
             /\ UNCHANGED <<allocator, mem, root, length, bind>>
  /\ UNCHANGED <<ops, it, yielded, others>>

\* tree.insert(k, v)
Insert(k, v) ==
  /\ root # NULL
  /\ it.kind = "none"
  /\ ops < MaxOps
  /\ LET r == insert(allocator, mem, root, length, k, v)
     IN /\ allocator' = r.alloc
        /\ mem' = r.mem
        /\ length' = r.length
        /\ lastOp' = Op("insert", k, v, r.ret)
  /\ bind' = [bind EXCEPT ![k] = v]
  /\ ops' = ops + 1
  /\ UNCHANGED <<root, it, yielded, others>>

\* tree.remove(&k)
Remove(k) ==
  /\ root # NULL
  /\ it.kind = "none"
  /\ ops < MaxOps
  /\ LET r == remove(allocator, mem, root, length, k)
     IN /\ allocator' = r.alloc
        /\ mem' = r.mem
        /\ length' = r.length
        /\ lastOp' = Op("remove", k, r.drops, r.ret)
  /\ bind' = [bind EXCEPT ![k] = None]
  /\ ops' = ops + 1
  /\ UNCHANGED <<root, it, yielded, others>>

\* let mut iter = tree.iter()
IterStart ==
  /\ root # NULL
  /\ it.kind = "none"
  /\ ops <= MaxIterOps
  /\ it' = iter(mem, root)
  /\ yielded' = NoYield
  /\ lastOp' = Op("iter", 0, 0, 0)
  /\ UNCHANGED <<allocator, mem, root, length, bind, ops, others>>

\* let mut iter = tree.find(lo..hi)
FindStart(lo, hi) ==
  /\ root # NULL
  /\ it.kind = "none"
  /\ ops <= MaxIterOps
  /\ it' = find(mem, root, lo, hi)
  /\ yielded' = NoYield
  /\ lastOp' = Op("find", lo, hi, 0)
  /\ UNCHANGED <<allocator, mem, root, length, bind, ops, others>>

\* the effect of one call on the iterator: its stack, its last key, the
\* items this end has yielded so far and whether it has returned None.  A
\* call that panics unwinds and drops the iterator.
Advance(r, back) ==
  /\ yielded' = IF r.ret = "abort" THEN NoYield
                ELSE IF r.ret = "None" THEN yielded
                ELSE IF back
                THEN [yielded EXCEPT !.rev = Append(@, <<r.key, r.val>>)]
                ELSE [yielded EXCEPT !.fwd = Append(@, <<r.key, r.val>>)]
  /\ it' = IF r.ret = "abort" THEN NoIter
           ELSE IF back
           THEN [it EXCEPT !.rev_stack = r.stack,
                           !.last_rev_key = IF r.ret = "Some" THEN r.key ELSE @,
                           !.rev_none = @ \/ r.ret = "None"]
           ELSE [it EXCEPT !.iter_stack = r.stack,
                           !.last_iter_key = IF r.ret = "Some" THEN r.key ELSE @,
                           !.fwd_none = @ \/ r.ret = "None"]
  /\ lastOp' = IF r.ret = "abort"
               THEN Op(IF back THEN "next_back" ELSE "next", 0, 0, -1)
               ELSE lastOp
  /\ UNCHANGED <<allocator, mem, root, length, bind, ops, others>>

\* iter.next() on a SearchTreeIter
IterNext ==
  /\ it.kind = "iter"
  /\ Advance(iter_next(mem, it.iter_stack, it.last_rev_key), FALSE)

\* iter.next_back() on a SearchTreeIter
IterNextBack ==
  /\ it.kind = "iter"
  /\ Advance(iter_next_back(mem, it.rev_stack, it.last_iter_key), TRUE)

\* iter.next() on a SearchTreeFind
FindNext ==
  /\ it.kind = "find"
  /\ Advance(find_next(mem, it.iter_stack, it.last_rev_key, it.start, it.end), FALSE)

\* iter.next_back() on a SearchTreeFind
FindNextBack ==
  /\ it.kind = "find"
  /\ Advance(find_next_back(mem, it.rev_stack, it.last_iter_key, it.start, it.end), TRUE)

\* drop(iter)
IterEnd ==
  /\ it.kind # "none"
  /\ it' = NoIter
  /\ yielded' = NoYield
  /\ lastOp' = Op("drop_iter", 0, 0, 0)
  /\ UNCHANGED <<allocator, mem, root, length, bind, ops, others>>

\* ------------------------------------------- from_sorted as a function
\* the keys and the inputs from_sorted is applied to on its own: every
\* sequence of up to MaxLen keys, sorted or not, with or without repeated
\* keys; the items at odd and at even positions carry a value each
BuildKeys == 1..MaxLen

BuildInputs ==
  UNION {{[i \in 1..n |-> <<ks[i], vs[(i % 2) + 1]>>] :
            ks \in [1..n -> BuildKeys], vs \in [1..2 -> Vals]} : n \in 0..MaxLen}

\* the reference map of a strictly ascending input over BuildKeys
BuildMap(input) ==
  [k \in Keys \cup BuildKeys |->
     IF \E i \in DOMAIN input : input[i][1] = k
     THEN input[CHOOSE i \in DOMAIN input : input[i][1] = k][2]
     ELSE None]

\* an input has been chosen and no tree has been constructed yet
InitBuild ==
  /\ allocator = new_allocator(NewBlockSize, NewBlocksCap)
  /\ mem = <<>>
  /\ root = NULL
  /\ length = 0
  /\ bind = [k \in Keys \cup BuildKeys |-> None]
  /\ ops = 0
  /\ \E input \in BuildInputs : lastOp = Op("input", input, 0, 0)
  /\ it = NoIter
  /\ yielded = NoYield
  /\ outstanding = {}
  /\ cont = NoCont
  /\ refseq = <<>>
  /\ hist = {}

\* let tree = SearchTree::from_sorted(input) on the chosen input; lastOp
\* keeps the input, the panic message and whether a tree was returned
Build ==
  /\ lastOp.op = "input"
  /\ LET r == from_sorted(lastOp.key)
     IN IF r.ret = "ok"
        THEN /\ allocator' = r.alloc
             /\ mem' = r.mem
             /\ root' = r.root
             /\ length' = r.length
             /\ bind' = BuildMap(lastOp.key)
             /\ lastOp' = Op("from_sorted", lastOp.key, r.msg, 1)
        ELSE /\ lastOp' = Op("from_sorted", lastOp.key, r.msg, -1)
             /\ UNCHANGED <<allocator, mem, root, length, bind>>
  /\ UNCHANGED <<ops, it, yielded, others>>

SpecBuild == InitBuild /\ [][Build]_vars

\* ------------------------------------------------------------ drop(tree)
\* drop(tree) at the end of the tree's life, with no iterator borrowing it.
\* The state kept is the one at the end of Drop for SearchTree, before the
\* allocator itself is dropped; lastOp keeps the key cells and the values
\* the walk dropped.  No call follows on a dropped tree.
Drop ==
  /\ root # NULL
  /\ it.kind = "none"
  /\ LET d == drop_tree(allocator, mem, root)
     IN /\ allocator' = d.alloc
        /\ mem' = d.mem
        /\ lastOp' = Op("drop", d.keys, d.vals, IF d.ret = "ok" THEN 1 ELSE -1)
  /\ root' = NULL
  /\ UNCHANGED <<length, bind, ops, it, yielded, others>>

\* a tree reached by new / from_sorted and inserts and removes, or built by
\* from_sorted from a longer input, is dropped
InitDrop == Init \/ InitBuild

NextDrop ==
  \/ New
  \/ \E input \in Inputs : FromSorted(input)
  \/ \E k \in Keys, v \in Vals : Insert(k, v)
  \/ \E k \in Keys : Remove(k)
  \/ Build
  \/ Drop

SpecDrop == InitDrop /\ [][NextDrop]_vars

\* ------------------------------------------------------- the pool alone
\* A client that uses a BlockAllocator<TreeNode> directly: it acquires nodes,
\* writes to the nodes it holds and returns nodes it holds.  The client's
\* own record is outstanding (the addresses it holds) and refseq (the
\* addresses it returned and has not been handed again, in order of return).
PoolOps == {"pool_new", "get_node", "write", "return_node"}

\* let mut allocator = BlockAllocator::new(block_size, blocks_cap), for any
\* positive arguments up to NewBlockSize and NewBlocksCap
InitPool ==
  /\ \E block_size \in 1..NewBlockSize, blocks_cap \in 1..NewBlocksCap :
       /\ allocator = new_allocator(block_size, blocks_cap)
       /\ lastOp = Op("pool_new", block_size, blocks_cap, 0)
  /\ mem = <<>>
  /\ root = NULL
  /\ length = 0
  /\ bind = [k \in Keys |-> None]
  /\ ops = 0
  /\ it = NoIter
  /\ yielded = NoYield
  /\ outstanding = {}
  /\ cont = NoCont
  /\ refseq = <<>>
  /\ hist = {}

\* s without its element x
Without(s, x) == SelectSeq(s, LAMBDA y : y # x)

\* let node = allocator.get_node(), while the pool has issued fewer than
\* MaxSlots slots or has a node to reuse
PoolGet ==
  /\ lastOp.op \in PoolOps
  /\ allocator.free_list # NULL \/ Cardinality(DOMAIN mem) < MaxSlots
  /\ LET g == get_node(allocator, mem)
     IN /\ allocator' = g.alloc
        /\ mem' = g.mem
        /\ outstanding' = outstanding \cup {g.node}
        /\ refseq' = Without(refseq, g.node)
        /\ lastOp' = Op("get_node", 0, 0, g.node)
  /\ UNCHANGED <<root, length, bind, ops, it, yielded, cont, hist>>

\* what the client leaves in a node it has used: a dropped key, a stale
\* value pointer and a stale link
UsedNode(node) == [key |-> 1, kst |-> "dropped", right |-> node, left |-> PtrVal(1)]

\* the client writes to a node it holds
PoolWrite(node) ==
  /\ lastOp.op \in PoolOps
  /\ node \in outstanding
  /\ mem[node] = DefaultNode
  /\ mem' = [mem EXCEPT ![node] = UsedNode(node)]
  /\ lastOp' = Op("write", node, 0, 0)
  /\ UNCHANGED <<allocator, root, length, bind, ops, it, yielded, outstanding, cont, refseq,
                 hist>>

\* allocator.return_node(node) for a node the client holds
PoolReturn(node) ==
  /\ lastOp.op \in PoolOps
  /\ node \in outstanding
  /\ LET r == return_node(allocator, mem, node)
     IN /\ allocator' = r.alloc
        /\ mem' = r.mem
  /\ outstanding' = outstanding \ {node}
  /\ refseq' = Append(refseq, node)
  /\ lastOp' = Op("return_node", node, 0, 0)
  /\ UNCHANGED <<root, length, bind, ops, it, yielded, cont, hist>>

NextPool ==
  \/ PoolGet
  \/ \E node \in outstanding : PoolWrite(node)
  \/ \E node \in outstanding : PoolReturn(node)

SpecPool == InitPool /\ [][NextPool]_vars

\* ------------------------------------------------- stacks and queues
StackKinds == {"ArrayStack", "BoundedStack", "LinkedListStack",
               "UnboundedStack", "ShadowCopyStack"}
QueueKinds == {"BoundedQueue", "LinkedListQueue", "CircularLinkedQueue",
               "DoubleLinkedQueue"}

\* stack.push(val) on the stack at hand
stack_push(s, val) ==
  CASE s.kind = "ArrayStack" -> ArrayStack_push(s, val)
    [] s.kind = "BoundedStack" -> BoundedStack_push(s, val)
    [] s.kind = "LinkedListStack" ->
         [ret |-> "ok", msg |-> MsgNone, stack |-> LinkedListStack_push(s, val)]
    [] s.kind = "UnboundedStack" -> UnboundedStack_push(s, val)
    [] s.kind = "ShadowCopyStack" -> ShadowCopyStack_push(s, val)

\* stack.pop()
stack_pop(s) ==
  CASE s.kind = "ArrayStack" -> ArrayStack_pop(s)
    [] s.kind = "BoundedStack" -> BoundedStack_pop(s)
    [] s.kind = "LinkedListStack" -> LinkedListStack_pop(s)
    [] s.kind = "UnboundedStack" -> UnboundedStack_pop(s)
    [] s.kind = "ShadowCopyStack" -> ShadowCopyStack_pop(s)

\* stack.peek()
stack_peek(s) ==
  CASE s.kind = "ArrayStack" -> ArrayStack_peek(s)
    [] s.kind = "BoundedStack" -> BoundedStack_peek(s)
    [] s.kind = "LinkedListStack" -> LinkedListStack_peek(s)
    [] s.kind = "UnboundedStack" -> UnboundedStack_peek(s)
    [] s.kind = "ShadowCopyStack" -> ShadowCopyStack_peek(s)

\* stack.len()
stack_len(s) ==
  CASE s.kind = "ArrayStack" -> ArrayStack_len(s)
    [] s.kind = "BoundedStack" -> BoundedStack_len(s)
    [] s.kind = "LinkedListStack" -> LinkedListStack_len(s)
    [] s.kind = "UnboundedStack" -> UnboundedStack_len(s)
    [] s.kind = "ShadowCopyStack" -> ShadowCopyStack_len(s)

\* stack.is_empty()
stack_is_empty(s) ==
  CASE s.kind = "ArrayStack" -> ArrayStack_is_empty(s)
    [] s.kind = "BoundedStack" -> BoundedStack_is_empty(s)
    [] s.kind = "LinkedListStack" -> LinkedListStack_is_empty(s)
    [] s.kind = "UnboundedStack" -> UnboundedStack_is_empty(s)
    [] s.kind = "ShadowCopyStack" -> ShadowCopyStack_is_empty(s)

\* the number of elements up to which the program pushes: a bounded stack is
\* pushed to also when it is full
stack_limit(s) ==
  CASE s.kind \in {"ArrayStack", "BoundedStack"} -> MaxCap + 1
    [] s.kind \in {"LinkedListStack", "UnboundedStack"} -> MaxStack
    [] s.kind = "ShadowCopyStack" -> MaxShadow

\* queue.enqueue(val) on the queue at hand
queue_enqueue(q, val) ==
  CASE q.kind = "BoundedQueue" -> BoundedQueue_enqueue(q, val)
    [] q.kind = "LinkedListQueue" -> LinkedListQueue_enqueue(q, val)
    [] q.kind = "CircularLinkedQueue" -> CircularLinkedQueue_enqueue(q, val)
    [] q.kind = "DoubleLinkedQueue" -> DoubleLinkedQueue_enqueue(q, val)

\* queue.dequeue()
queue_dequeue(q) ==
  CASE q.kind = "BoundedQueue" -> BoundedQueue_dequeue(q)
    [] q.kind = "LinkedListQueue" -> LinkedListQueue_dequeue(q)
    [] q.kind = "CircularLinkedQueue" -> CircularLinkedQueue_dequeue(q)
    [] q.kind = "DoubleLinkedQueue" -> DoubleLinkedQueue_dequeue(q)

\* queue.peek()
queue_peek(q) ==
  CASE q.kind = "BoundedQueue" -> BoundedQueue_peek(q)
    [] q.kind = "LinkedListQueue" -> LinkedListQueue_peek(q)
    [] q.kind = "CircularLinkedQueue" -> CircularLinkedQueue_peek(q)
    [] q.kind = "DoubleLinkedQueue" -> DoubleLinkedQueue_peek(q)

\* queue.len()
queue_len(q) ==
  CASE q.kind = "BoundedQueue" -> BoundedQueue_len(q)
    [] q.kind = "LinkedListQueue" -> LinkedListQueue_len(q)
    [] q.kind = "CircularLinkedQueue" -> CircularLinkedQueue_len(q)
    [] q.kind = "DoubleLinkedQueue" -> DoubleLinkedQueue_len(q)

\* queue.is_empty()
queue_is_empty(q) ==
  CASE q.kind = "BoundedQueue" -> BoundedQueue_is_empty(q)
    [] q.kind = "LinkedListQueue" -> LinkedListQueue_is_empty(q)
    [] q.kind = "CircularLinkedQueue" -> CircularLinkedQueue_is_empty(q)
    [] q.kind = "DoubleLinkedQueue" -> DoubleLinkedQueue_is_empty(q)

\* the number of elements up to which the program enqueues
queue_limit(q) ==
  IF q.kind = "BoundedQueue" THEN MaxCap + 1 ELSE MaxQueue

\* the variables no stack or queue operation touches
treeVars == <<allocator, mem, root, length, bind, ops, it, yielded, outstanding>>

\* what a pop that took the stack from s to t tells about its past: it
\* emptied the stack, it switched a ShadowCopyStack to its copy, or it went
\* back to the previous chunk of an UnboundedStack
pop_events(s, t, ref) ==
  IF t = s THEN {}
  ELSE (IF ref = <<>> THEN {"drained"} ELSE {})
       \cup (IF s.kind = "ShadowCopyStack" /\ s.copy # NoArray /\ t.copy = NoArray
             THEN {"pop_switch"} ELSE {})
       \cup (IF s.kind = "UnboundedStack" /\ s.top = 0
             THEN {"chunk_back"} ELSE {})

\* let mut stack = LinkedListStack::new(NewBlockSize, NewBlocksCap)
StackNew ==
  /\ lastOp.op = "start"
  /\ cont = NoCont
  /\ cont' = LinkedListStack_new(NewBlockSize, NewBlocksCap)
  /\ refseq' = <<>>
  /\ lastOp' = Op("stack_new", 0, 0, 0)
  /\ UNCHANGED <<treeVars, hist>>

\* let mut stack = ArrayStack::<_, n>::new()
ArrayStackNew(n) ==
  /\ lastOp.op = "start"
  /\ cont = NoCont
  /\ cont' = ArrayStack_new(n)
  /\ refseq' = <<>>
  /\ lastOp' = Op("stack_new", n, 0, 0)
  /\ UNCHANGED <<treeVars, hist>>

\* let mut stack = BoundedStack::new(c)
BoundedStackNew(c) ==
  /\ lastOp.op = "start"
  /\ cont = NoCont
  /\ cont' = BoundedStack_new(c)
  /\ refseq' = <<>>
  /\ lastOp' = Op("stack_new", c, 0, 0)
  /\ UNCHANGED <<treeVars, hist>>

\* let mut stack = UnboundedStack::new(c)
UnboundedStackNew(c) ==
  /\ lastOp.op = "start"
  /\ cont = NoCont
  /\ cont' = UnboundedStack_new(c)
  /\ refseq' = <<>>
  /\ lastOp' = Op("stack_new", c, 0, 0)
  /\ UNCHANGED <<treeVars, hist>>

\* let mut stack = ShadowCopyStack::new(c)
ShadowCopyStackNew(c) ==
  /\ lastOp.op = "start"
  /\ cont = NoCont
  /\ cont' = ShadowCopyStack_new(c)
  /\ refseq' = <<>>
  /\ lastOp' = Op("stack_new", c, 0, 0)
  /\ UNCHANGED <<treeVars, hist>>

\* stack.push(v); a push the stack refuses panics and changes nothing
StackPush(v) ==
  /\ cont.kind \in StackKinds
  /\ stack_len(cont) < stack_limit(cont)
  /\ LET r == stack_push(cont, v)
     IN IF r.ret = "ok"
        THEN /\ cont' = r.stack
             /\ refseq' = push(refseq, v)
             /\ lastOp' = Op("push", v, 0, 1)
        ELSE /\ lastOp' = Op("push", v, r.msg, IF r.ret = "abort" THEN -1 ELSE -2)
             /\ UNCHANGED <<cont, refseq>>
  /\ UNCHANGED <<treeVars, hist>>

\* stack.pop(); on an empty stack the call panics and changes nothing
StackPop ==
  /\ cont.kind \in StackKinds
  /\ LET r == stack_pop(cont)
     IN IF r.ret = "ok"
        THEN /\ cont' = r.stack
             /\ refseq' = pop(refseq)
             /\ lastOp' = Op("pop", 0, r.val, 1)
        ELSE /\ lastOp' = Op("pop", 0, r.msg, -1)
             /\ UNCHANGED <<cont, refseq>>
  /\ hist' = hist \cup pop_events(cont, cont', refseq')
  /\ UNCHANGED treeVars

\* stack.peek(); on an empty stack the call panics
StackPeek ==
  /\ cont.kind \in StackKinds
  /\ LET r == stack_peek(cont)
     IN lastOp' = Op("peek", 0, IF r.ret = "ok" THEN r.val ELSE r.msg,
                     IF r.ret = "ok" THEN 1 ELSE -1)
  /\ UNCHANGED <<cont, refseq>>
  /\ UNCHANGED <<treeVars, hist>>

\* the LinkedListStack alone
NextStack ==
  \/ StackNew
  \/ \E v \in Vals : StackPush(v)
  \/ StackPop
  \/ StackPeek

SpecStack == Init /\ [][NextStack]_vars

\* one stack of any of the five kinds
NextStacks ==
  \/ NextStack
  \/ \E n \in 1..MaxCap : ArrayStackNew(n)
  \/ \E c \in 1..MaxCap : BoundedStackNew(c)
  \/ \E c \in 1..MaxCap : UnboundedStackNew(c)
  \/ \E c \in 1..MaxCap : ShadowCopyStackNew(c)

SpecStacks == Init /\ [][NextStacks]_vars

\* let mut queue = BoundedQueue::new(c)
BoundedQueueNew(c) ==
  /\ lastOp.op = "start"
  /\ cont = NoCont
  /\ cont' = BoundedQueue_new(c)
  /\ refseq' = <<>>
  /\ lastOp' = Op("queue_new", c, 0, 0)
  /\ UNCHANGED <<treeVars, hist>>

\* let mut queue = LinkedListQueue::new(NewBlockSize, NewBlocksCap)
LinkedListQueueNew ==
  /\ lastOp.op = "start"
  /\ cont = NoCont
  /\ cont' = LinkedListQueue_new(NewBlockSize, NewBlocksCap)
  /\ refseq' = <<>>
  /\ lastOp' = Op("queue_new", 0, 0, 0)
  /\ UNCHANGED <<treeVars, hist>>

\* let mut queue = CircularLinkedQueue::new(NewBlockSize, NewBlocksCap)
CircularLinkedQueueNew ==
  /\ lastOp.op = "start"
  /\ cont = NoCont
  /\ cont' = CircularLinkedQueue_new(NewBlockSize, NewBlocksCap)
  /\ refseq' = <<>>
  /\ lastOp' = Op("queue_new", 0, 0, 0)
  /\ UNCHANGED <<treeVars, hist>>

\* let mut queue = DoubleLinkedQueue::new(NewBlockSize, NewBlocksCap)
DoubleLinkedQueueNew ==
  /\ lastOp.op = "start"
  /\ cont = NoCont
  /\ cont' = DoubleLinkedQueue_new(NewBlockSize, NewBlocksCap)
  /\ refseq' = <<>>
  /\ lastOp' = Op("queue_new", 0, 0, 0)
  /\ UNCHANGED <<treeVars, hist>>

\* queue.enqueue(v); an enqueue the queue refuses panics and changes nothing.
\* refseq holds the elements from the oldest to the newest.
Enqueue(v) ==
  /\ cont.kind \in QueueKinds
  /\ queue_len(cont) < queue_limit(cont)
  /\ LET r == queue_enqueue(cont, v)
     IN IF r.ret = "ok"
        THEN /\ cont' = r.queue
             /\ refseq' = Append(refseq, v)
             /\ lastOp' = Op("enqueue", v, 0, 1)
        ELSE /\ lastOp' = Op("enqueue", v, r.msg, -1)
             /\ UNCHANGED <<cont, refseq>>
  /\ UNCHANGED <<treeVars, hist>>

\* queue.dequeue(); on an empty queue the call panics and changes nothing
Dequeue ==
  /\ cont.kind \in QueueKinds
  /\ LET r == queue_dequeue(cont)
     IN IF r.ret = "ok"
        THEN /\ cont' = r.queue
             /\ refseq' = IF refseq = <<>> THEN <<>> ELSE Tail(refseq)
             /\ lastOp' = Op("dequeue", 0, r.val, 1)
        ELSE /\ lastOp' = Op("dequeue", 0, r.msg, -1)
             /\ UNCHANGED <<cont, refseq>>
  /\ hist' = hist \cup (IF lastOp'.ret = 1 /\ refseq' = <<>> THEN {"drained"} ELSE {})
  /\ UNCHANGED treeVars

\* queue.peek(); on an empty queue the call panics
QueuePeek ==
  /\ cont.kind \in QueueKinds
  /\ LET r == queue_peek(cont)
     IN lastOp' = Op("queue_peek", 0, IF r.ret = "ok" THEN r.val ELSE r.msg,
                     IF r.ret = "ok" THEN 1 ELSE -1)
  /\ UNCHANGED <<cont, refseq>>
  /\ UNCHANGED <<treeVars, hist>>

\* one queue of any of the four kinds
NextQueues ==
  \/ \E c \in 1..MaxCap : BoundedQueueNew(c)
  \/ LinkedListQueueNew
  \/ CircularLinkedQueueNew
  \/ DoubleLinkedQueueNew
  \/ \E v \in Vals : Enqueue(v)
  \/ Dequeue
  \/ QueuePeek

SpecQueues == Init /\ [][NextQueues]_vars

\* one stack or one queue
NextContainers ==
  \/ NextStacks
  \/ NextQueues

SpecContainers == Init /\ [][NextContainers]_vars

\* ------------------------------------- the size fields of large stacks
\* the capacities of the stacks followed by their size fields: the small
\* ones and one above 2^25, where usize as f32 rounds to multiples of 4
LargeCap == 33554438
ShadowCaps == (1..MaxCap) \cup {LargeCap}

\* the base_size at which a stack of capacity c starts its copy: the least
\* one that passes the test of push
copy_start(c) ==
  LET near == (3 * c) \div 4
  IN CHOOSE b \in {x \in (near - 8)..(near + 8) : x >= 1} :
       copy_due(b, c) /\ ~copy_due(b - 1, c)

\* ShadowCopyStack::new(c) followed by n pushes, none of which has completed
\* the copy: a push below copy_start(c) adds one to base_size; the push that
\* reaches it allocates the copy, and from then on every push adds one to
\* base_size and four to copy_size
pushed(c, n) ==
  IF n < copy_start(c)
  THEN [ShadowCopyStack_new_sizes(c) EXCEPT !.base_size = n]
  ELSE [ShadowCopyStack_new_sizes(c) EXCEPT !.base_size = n, !.has_copy = TRUE,
                                            !.copy_size = 4 * (n - copy_start(c) + 1)]

\* the numbers of pushes drawn for capacity c: the first ones, those around
\* the start of the copy and the last ones that fit the array, before the
\* copy is complete
ShadowRuns(c) ==
  {n \in (0..2) \cup ((copy_start(c) - 2)..(copy_start(c) + 2)) \cup ((c - 3)..c) :
     /\ 0 <= n /\ n <= c
     /\ n >= copy_start(c) => 4 * (n - copy_start(c) + 1) < n}

\* a ShadowCopyStack of capacity c that has received n pushes
InitShadowSizes ==
  /\ allocator = new_allocator(NewBlockSize, NewBlocksCap)
  /\ mem = <<>>
  /\ root = NULL
  /\ length = 0
  /\ bind = [k \in Keys |-> None]
  /\ ops = 0
  /\ it = NoIter
  /\ yielded = NoYield
  /\ outstanding = {}
  /\ refseq = <<>>
  /\ hist = {}
  /\ \E c \in ShadowCaps : \E n \in ShadowRuns(c) :
       /\ cont = pushed(c, n)
       /\ lastOp = Op("pushed", c, n, 1)

\* stack.push(v) followed on the size fields; no call follows a write
\* outside the array
ShadowSizesPush ==
  /\ cont.kind = "ShadowCopySizes"
  /\ lastOp.ret = 1 /\ ops < MaxOps
  /\ LET r == ShadowCopyStack_push_sizes(cont)
     IN /\ cont' = r.stack
        /\ lastOp' = Op("push", 0, r.msg, IF r.ret = "ok" THEN 1 ELSE -2)
  /\ ops' = ops + 1
  /\ UNCHANGED <<allocator, mem, root, length, bind, it, yielded, outstanding, refseq, hist>>

\* stack.pop() followed on the size fields; on an empty stack the call
\* panics
ShadowSizesPop ==
  /\ cont.kind = "ShadowCopySizes"
  /\ lastOp.ret = 1 /\ ops < MaxOps
  /\ LET r == ShadowCopyStack_pop_sizes(cont)
     IN /\ cont' = r.stack
        /\ lastOp' = Op("pop", 0, r.msg, IF r.ret = "ok" THEN 1 ELSE -1)
  /\ ops' = ops + 1
  /\ UNCHANGED <<allocator, mem, root, length, bind, it, yielded, outstanding, refseq, hist>>

NextShadowSizes ==
  \/ ShadowSizesPush
  \/ ShadowSizesPop

SpecShadowSizes == InitShadowSizes /\ [][NextShadowSizes]_vars

\* ------------------------------------------------ rotations of tree nodes
\* the strictly ascending inputs of one or more items
SortedInputs == {input \in BuildInputs :
                   Len(input) >= 1 /\ \A i \in 1..(Len(input) - 1) : input[i][1] < input[i + 1][1]}

\* a tree built by from_sorted, whose nodes the rotations are applied to
InitRotate ==
  /\ \E input \in SortedInputs :
       LET r == from_sorted(input)
       IN /\ allocator = r.alloc
          /\ mem = r.mem
          /\ root = r.root
          /\ length = r.length
          /\ bind = BuildMap(input)
          /\ lastOp = Op("from_sorted", input, r.msg, 1)
  /\ ops = 0
  /\ it = NoIter
  /\ yielded = NoYield
  /\ outstanding = {}
  /\ cont = NoCont
  /\ refseq = <<>>
  /\ hist = {}

\* the effect of a rotation call on the program: a failed assertion ends it
Rotated(name, node, r) ==
  /\ mem' = r.mem
  /\ ops' = ops + 1
  /\ lastOp' = Op(name, node, r.msg, IF r.ret = "ok" THEN 1 ELSE -1)
  /\ UNCHANGED <<allocator, root, length, bind, it, yielded, others>>

\* (*node).left_rotation() on a node of the tree
LeftRotation(node) ==
  /\ lastOp.op \in {"from_sorted", "left_rotation", "right_rotation"}
  /\ root # NULL /\ lastOp.ret = 1 /\ ops < MaxOps
  /\ Rotated("left_rotation", node, left_rotation(mem, node))

\* (*node).right_rotation() on a node of the tree
RightRotation(node) ==
  /\ lastOp.op \in {"from_sorted", "left_rotation", "right_rotation"}
  /\ root # NULL /\ lastOp.ret = 1 /\ ops < MaxOps
  /\ Rotated("right_rotation", node, right_rotation(mem, node))

NextRotate ==
  \/ \E node \in DOMAIN mem : LeftRotation(node)
  \/ \E node \in DOMAIN mem : RightRotation(node)

SpecRotate == InitRotate /\ [][NextRotate]_vars

Bounds == 0..(MaxKey + 1)

Next ==
  \/ New
  \/ \E input \in Inputs : FromSorted(input)
  \/ \E k \in Keys, v \in Vals : Insert(k, v)
  \/ \E k \in Keys : Remove(k)
  \/ IterStart
  \/ \E lo \in Bounds, hi \in Bounds : FindStart(lo, hi)
  \/ IterNext
  \/ IterNextBack
  \/ FindNext
  \/ FindNextBack
  \/ IterEnd
  \/ Build
  \/ Drop
  \/ PoolGet
  \/ \E node \in outstanding : PoolWrite(node)
  \/ \E node \in outstanding : PoolReturn(node)
  \/ StackNew
  \/ \E v \in Vals : StackPush(v)
  \/ StackPop
  \/ StackPeek
  \/ NextContainers
  \/ NextRotate
  \/ NextShadowSizes

\* every way the program can start: nothing constructed yet, an input chosen
\* for from_sorted, or a pool created for direct use
InitAll == Init \/ InitBuild \/ InitPool \/ InitRotate \/ InitShadowSizes

Spec == InitAll /\ [][Next]_vars

\* the tree operations alone
NextTree ==
  \/ New
  \/ \E input \in Inputs : FromSorted(input)
  \/ \E k \in Keys, v \in Vals : Insert(k, v)
  \/ \E k \in Keys : Remove(k)

SpecTree == Init /\ [][NextTree]_vars

\* the tree operations and one SearchTreeIter at a time
NextIter ==
  \/ NextTree
  \/ IterStart
  \/ IterNext
  \/ IterNextBack
  \/ IterEnd

SpecIter == Init /\ [][NextIter]_vars

\* the tree operations and one SearchTreeFind at a time
NextFind ==
  \/ NextTree
  \/ \E lo \in Bounds, hi \in Bounds : FindStart(lo, hi)
  \/ FindNext
  \/ FindNextBack
  \/ IterEnd

SpecFind == Init /\ [][NextFind]_vars

\* ------------------------------------------------------------ properties
\* the number of leaves below node n
RECURSIVE count_leaves(_, _)
count_leaves(m, n) ==
  IF m[n].right = NULL THEN 1
  ELSE count_leaves(m, m[n].left.ptr) + count_leaves(m, m[n].right)

\* the number of leaves of the tree
NumLeaves(m, r) == IF is_empty(m[r]) THEN 0 ELSE count_leaves(m, r)

\* the number of live bindings of the reference map
NumBound == Cardinality({k \in Keys : bind[k] # None})

\* C1: after every sequence of insert and remove calls, get(k) returns the
\* value of the latest insert of k that no remove of k followed, and None
\* when there is none.
C1_GetIsLastInsert ==
  root # NULL => \A k \in Keys : get(mem, root, k) = bind[k]

\* C1 witness: a remove has taken a binding out of a tree that keeps another
\* one, so get answers Some for one key and None for a removed one.
C1_Witness ==
  /\ lastOp.op = "remove" /\ lastOp.ret # None
  /\ get(mem, root, lastOp.key) = None
  /\ \E k \in Keys : get(mem, root, k) # None

\* C2: len() equals the number of leaves, also after insert of a present key.
C2_LenIsLeaves ==
  root # NULL => /\ length = NumLeaves(mem, root)
                 /\ length = NumBound

\* C3: insert(k, v) returns the previous binding of k, afterwards get(k) is
\* Some(v) and every other key keeps its binding.
C3_InsertLaw ==
  [][lastOp'.op = "insert" =>
       LET k == lastOp'.key
           v == lastOp'.val
       IN /\ lastOp'.ret = bind[k]
          /\ lastOp'.ret = get(mem, root, k)
          /\ get(mem', root', k) = v
          /\ \A j \in Keys \ {k} : get(mem', root', j) = get(mem, root, j)]_vars

\* C3 witness: an insert has replaced a binding by a different value while
\* another key is bound.
C3_Witness ==
  /\ lastOp.op = "insert" /\ lastOp.ret # None /\ lastOp.ret # lastOp.val
  /\ \E j \in Keys \ {lastOp.key} : bind[j] # None

\* C4: remove(k) returns the previous binding of k (None on an empty tree, on
\* a single leaf with another key, on a leaf with another key); afterwards
\* get(k) is None, a second remove(k) returns None and leaves the tree as it
\* is, and every other key keeps its binding.
C4_RemoveLaw ==
  [][lastOp'.op = "remove" =>
       LET k == lastOp'.key
           again == remove(allocator', mem', root', length', k)
       IN /\ lastOp'.ret = bind[k]
          /\ lastOp'.ret = get(mem, root, k)
          /\ get(mem', root', k) = None
          /\ again.ret = None
          /\ again.mem = mem'
          /\ \A j \in Keys \ {k} : get(mem', root', j) = get(mem, root, j)]_vars

\* C4 witness: a remove has returned Some from a tree of at least three
\* entries, so the parent that took over the sibling is not the only node.
C4_Witness ==
  /\ lastOp.op = "remove" /\ lastOp.ret # None
  /\ NumLeaves(mem, root) >= 2

\* the links and key of a node, without the value a leaf holds
Shape(n) == [key |-> n.key, right |-> n.right, tag |-> n.left.tag,
             child |-> IF n.left.tag = "Node" THEN n.left.ptr ELSE NULL]

\* C5: insert of a present key acquires no node and keeps every node's key
\* and links, replacing only the value of the leaf that holds the key; insert
\* of an absent key adds exactly one leaf.
C5_InsertFrame ==
  [][lastOp'.op = "insert" =>
       LET k == lastOp'.key
       IN IF bind[k] # None
          THEN /\ allocator' = allocator
               /\ DOMAIN mem' = DOMAIN mem
               /\ \A n \in DOMAIN mem :
                    /\ Shape(mem'[n]) = Shape(mem[n])
                    /\ n # descend(mem, root, k) => mem'[n] = mem[n]
               /\ mem'[descend(mem, root, k)].left = PtrVal(lastOp'.val)
          ELSE NumLeaves(mem', root') = NumLeaves(mem, root) + 1]_vars

\* C5 witness: an insert has found its key present in a tree whose root is
\* an internal node.
C5_Witness ==
  /\ lastOp.op = "insert" /\ lastOp.ret # None
  /\ has_subtrees(mem[root])

\* ---------------------------------------------------- iterator properties
\* the bound keys k with lo <= k < hi
BoundIn(lo, hi) == {k \in Keys : bind[k] # None /\ lo <= k /\ k < hi}

\* the entries of the reference map with keys in S, in ascending key order
Ascending(S) ==
  [i \in 1..Cardinality(S) |->
     LET k == CHOOSE x \in S : Cardinality({y \in S : y <= x}) = i
     IN <<k, bind[k]>>]

Reverse(s) == [i \in 1..Len(s) |-> s[Len(s) + 1 - i]]

IsPrefix(s, t) == Len(s) <= Len(t) /\ \A i \in 1..Len(s) : s[i] = t[i]

\* what one end, driven alone, must have yielded when the whole output is all
OneEnd(out, none, all) == IsPrefix(out, all) /\ (none => out = all)

\* no call has been made on the forward / on the reverse end
NoFwdCall == yielded.fwd = <<>> /\ ~it.fwd_none
NoRevCall == yielded.rev = <<>> /\ ~it.rev_none

\* the keys yielded so far by both ends, and their number
YieldedKeys == {yielded.fwd[i][1] : i \in DOMAIN yielded.fwd} \cup
               {yielded.rev[i][1] : i \in DOMAIN yielded.rev}
NumYielded == Len(yielded.fwd) + Len(yielded.rev)

\* C6: iter() driven by next() alone yields every entry once in ascending key
\* order, and driven by next_back() alone every entry once in descending
\* order; it returns None only when all entries have been yielded.
C6_IterOrder ==
  it.kind = "iter" =>
    /\ NoRevCall => OneEnd(yielded.fwd, it.fwd_none, Ascending(BoundIn(0, MaxKey + 1)))
    /\ NoFwdCall => OneEnd(yielded.rev, it.rev_none,
                           Reverse(Ascending(BoundIn(0, MaxKey + 1))))

\* C6 witness: next() alone has run through a tree of three entries that was
\* changed after its construction, and has returned None.
C6_Witness ==
  /\ it.kind = "iter" /\ NoRevCall /\ it.fwd_none
  /\ Len(yielded.fwd) >= 3 /\ ops >= 1

\* C7: under any interleaving of next() and next_back() on one iter(), no key
\* is yielded twice.
C7_IterNoDuplicate ==
  it.kind = "iter" => Cardinality(YieldedKeys) = NumYielded

\* C7 witness: both ends have yielded and each has run into the other's
\* frontier.
C7_Witness ==
  /\ it.kind = "iter" /\ it.fwd_none /\ it.rev_none
  /\ Len(yielded.fwd) >= 1 /\ Len(yielded.rev) >= 1 /\ NumYielded >= 3

\* C8: on one iter(), every call either yields one more entry or returns
\* None, at most as many entries as the tree holds are yielded (so each end
\* reaches None within that many calls plus one), and once an end has
\* returned None no later call to either end yields.
C8_IterFused ==
  [][it.kind = "iter" /\ it'.kind = "iter" =>
       /\ NumYielded' <= NumBound
       /\ NumYielded' \in {NumYielded, NumYielded + 1}
       /\ NumYielded' = NumYielded => (it'.fwd_none \/ it'.rev_none)
       /\ (it.fwd_none \/ it.rev_none) => yielded' = yielded]_vars

\* C8 witness: after next() had exhausted the tree and returned None,
\* next_back() was called and returned None too.
C8_Witness ==
  /\ it.kind = "iter" /\ it.fwd_none /\ it.rev_none
  /\ Len(yielded.fwd) >= 2 /\ yielded.rev = <<>>

\* C9: find(lo..hi), also with lo >= hi, driven by next() alone yields
\* exactly the entries with lo <= key < hi once each in ascending order, and
\* driven by next_back() alone the same entries in descending order.
C9_FindRange ==
  it.kind = "find" =>
    /\ NoRevCall => OneEnd(yielded.fwd, it.fwd_none, Ascending(BoundIn(it.start, it.end)))
    /\ NoFwdCall => OneEnd(yielded.rev, it.rev_none,
                           Reverse(Ascending(BoundIn(it.start, it.end))))

\* C9 witness: next() alone has yielded the entries in range and returned
\* None on a tree that holds an entry below the range and one at or above
\* its end.
C9_Witness ==
  /\ it.kind = "find" /\ NoRevCall /\ it.fwd_none
  /\ Len(yielded.fwd) >= 1
  /\ \E k \in Keys : bind[k] # None /\ k < it.start
  /\ \E k \in Keys : bind[k] # None /\ k >= it.end

\* C10: under any interleaving of next() and next_back() on one
\* find(lo..hi), only entries with lo <= key < hi are yielded, none twice,
\* and once an end has returned None no later call to either end yields.
C10_FindInterleave ==
  [][it'.kind = "find" =>
       /\ YieldedKeys' \subseteq BoundIn(it.start, it.end)'
       /\ \A i \in DOMAIN yielded.fwd' : yielded.fwd'[i][2] = bind[yielded.fwd'[i][1]]
       /\ \A i \in DOMAIN yielded.rev' : yielded.rev'[i][2] = bind[yielded.rev'[i][1]]
       /\ Cardinality(YieldedKeys') = NumYielded'
       /\ (it.kind = "find" /\ (it.fwd_none \/ it.rev_none)) => yielded' = yielded]_vars

\* C10 witness: both ends of a find over a proper part of the tree have
\* yielded and both have returned None.
C10_Witness ==
  /\ it.kind = "find" /\ it.fwd_none /\ it.rev_none
  /\ Len(yielded.fwd) >= 1 /\ Len(yielded.rev) >= 1
  /\ NumBound > NumYielded

\* ------------------------------------------------- from_sorted properties
StrictlyAscending(input) ==
  \A i \in 1..(Len(input) - 1) : input[i][1] < input[i + 1][1]

\* the tree SearchTree::new followed by insert(k_i, v_i) for the items of
\* input from position i on
RECURSIVE insert_all(_, _, _)
insert_all(t, input, i) ==
  IF i > Len(input) THEN t
  ELSE LET r == insert(t.alloc, t.mem, t.root, t.length, input[i][1], input[i][2])
       IN insert_all([alloc |-> r.alloc, mem |-> r.mem, root |-> t.root,
                      length |-> r.length], input, i + 1)

\* an aborted call, in a sequence of yielded items
Aborted == <<-1, -1>>

\* everything next() yields until it returns None
RECURSIVE iter_all(_, _, _)
iter_all(m, iter_stack, out) ==
  LET r == iter_next(m, iter_stack, None)
  IN IF r.ret = "Some" THEN iter_all(m, r.stack, Append(out, <<r.key, r.val>>))
     ELSE out

\* everything next_back() yields until it returns None
RECURSIVE iter_back_all(_, _, _)
iter_back_all(m, rev_stack, out) ==
  LET r == iter_next_back(m, rev_stack, None)
  IN IF r.ret = "Some" THEN iter_back_all(m, r.stack, Append(out, <<r.key, r.val>>))
     ELSE out

\* everything next() of find(lo..hi) yields until it returns None or aborts
RECURSIVE find_all(_, _, _, _, _)
find_all(m, iter_stack, lo, hi, out) ==
  LET r == find_next(m, iter_stack, None, lo, hi)
  IN IF r.ret = "Some"
     THEN find_all(m, r.stack, lo, hi, Append(out, <<r.key, r.val>>))
     ELSE IF r.ret = "abort" THEN Append(out, Aborted) ELSE out

\* everything next_back() of find(lo..hi) yields until None or abort
RECURSIVE find_back_all(_, _, _, _, _)
find_back_all(m, rev_stack, lo, hi, out) ==
  LET r == find_next_back(m, rev_stack, None, lo, hi)
  IN IF r.ret = "Some"
     THEN find_back_all(m, r.stack, lo, hi, Append(out, <<r.key, r.val>>))
     ELSE IF r.ret = "abort" THEN Append(out, Aborted) ELSE out

\* the range bounds find is observed with
BuildBounds == 0..(MaxLen + 1)

\* the external behaviour of a tree: len(), get(k) for every k, and what
\* iter() and find(lo..hi) yield from either end
Observe(m, r, len) ==
  [len |-> len,
   get |-> [k \in BuildKeys |-> get(m, r, k)],
   iter |-> iter_all(m, iter(m, r).iter_stack, <<>>),
   iter_back |-> iter_back_all(m, iter(m, r).rev_stack, <<>>),
   find |-> [lo \in BuildBounds, hi \in BuildBounds |->
               find_all(m, find(m, r, lo, hi).iter_stack, lo, hi, <<>>)],
   find_back |-> [lo \in BuildBounds, hi \in BuildBounds |->
               find_back_all(m, find(m, r, lo, hi).rev_stack, lo, hi, <<>>)]]

\* C11: for every strictly ascending input of length n >= 1, from_sorted
\* returns a tree, and that tree has the same len(), the same get(k) for
\* every k and the same iter() and find() output as an empty tree that
\* received insert(k_i, v_i) for the input items in order.
C11_FromSortedAsInserts ==
  (lastOp.op = "from_sorted" /\ Len(lastOp.key) >= 1 /\ StrictlyAscending(lastOp.key)) =>
    /\ lastOp.ret = 1
    /\ LET t == insert_all(new_tree(NewBlockSize, NewBlocksCap), lastOp.key, 1)
       IN Observe(mem, root, length) = Observe(t.mem, t.root, t.length)

\* C11 witness: from_sorted has built a tree of at least three entries that
\* carry two different values.
C11_Witness ==
  /\ lastOp.op = "from_sorted" /\ lastOp.ret = 1
  /\ Len(lastOp.key) >= 3
  /\ lastOp.key[1][2] # lastOp.key[2][2]
  /\ Len(iter_all(mem, iter(mem, root).iter_stack, <<>>)) = Len(lastOp.key)

\* the number of edges on the longest path from node n down to a leaf
RECURSIVE height(_, _)
height(m, n) ==
  IF m[n].right = NULL THEN 0
  ELSE LET l == height(m, m[n].left.ptr)
           r == height(m, m[n].right)
       IN 1 + (IF l >= r THEN l ELSE r)

\* ceil(log2 n) for n >= 1
ceil_log2(n) == IF n <= 1 THEN 0 ELSE ilog2(n - 1) + 1

\* C12: for every strictly ascending input of length n >= 1, the tree built
\* by from_sorted has height ceil(log2 n), counted in edges on the longest
\* root-to-leaf path.
C12_BuildHeight ==
  (lastOp.op = "from_sorted" /\ Len(lastOp.key) >= 1 /\ StrictlyAscending(lastOp.key)) =>
    /\ lastOp.ret = 1
    /\ height(mem, root) = ceil_log2(Len(lastOp.key))

\* C12 witness: from_sorted has built a tree of four or more leaves of
\* height ceil(log2 n) >= 2.
C12_Witness ==
  /\ lastOp.op = "from_sorted" /\ lastOp.ret = 1
  /\ Len(lastOp.key) >= 4
  /\ height(mem, root) >= 2

\* C13: from_sorted aborts with "iterator keys are not sorted or unique"
\* whenever some adjacent pair of its input has previous key >= next key, and
\* returns no tree in that case.
C13_UnsortedAborts ==
  (lastOp.op = "from_sorted" /\ ~StrictlyAscending(lastOp.key)) =>
    /\ lastOp.ret = -1
    /\ lastOp.val = MsgNotSorted
    /\ root = NULL

\* C13 witness: from_sorted has aborted on an input of three or more keys
\* that never decrease and whose only flaw is a repeated key.
C13_Witness ==
  /\ lastOp.op = "from_sorted" /\ lastOp.ret = -1
  /\ Len(lastOp.key) >= 3
  /\ \A i \in 1..(Len(lastOp.key) - 1) : lastOp.key[i][1] <= lastOp.key[i + 1][1]
  /\ \E i \in 1..(Len(lastOp.key) - 1) : lastOp.key[i][1] = lastOp.key[i + 1][1]

\* ---------------------------------------------------- teardown properties
\* the bound keys of the reference map
BoundKeys == {k \in DOMAIN bind : bind[k] # None}

\* C14: dropping a tree reached by inserts and removes or built by
\* from_sorted drops the value of every live binding exactly once: the
\* values are taken from pairwise distinct leaves, one per bound key, each
\* is the value the key is bound to, and nothing else is dropped (so no
\* value a replacing insert or a remove handed back).
C14_DropValuesOnce ==
  lastOp.op = "drop" =>
    LET log == lastOp.val
    IN /\ lastOp.ret = 1
       /\ \A i, j \in DOMAIN log : log[i].node = log[j].node => i = j
       /\ Len(log) = Cardinality(BoundKeys)
       /\ {<<mem[log[i].node].key, log[i].val>> : i \in DOMAIN log} =
            {<<k, bind[k]>> : k \in BoundKeys}

\* C14 witness: a tree that still held two or more values after an insert
\* or remove changed it has been dropped.
C14_Witness ==
  /\ lastOp.op = "drop"
  /\ Len(lastOp.val) >= 2
  /\ ops >= 2

\* the nodes on the pool's free list, following the link slot from free_list
\* for at most fuel steps
RECURSIVE free_nodes(_, _, _)
free_nodes(m, node, fuel) ==
  IF node = NULL \/ fuel = 0 THEN {}
  ELSE {node} \cup free_nodes(m, m[node].right, fuel - 1)

\* C15: when a tree has been dropped, every node it acquired from its pool
\* is on the pool's free list, the root and the leaf the walk ended at
\* included.
C15_AllNodesReturned ==
  lastOp.op = "drop" =>
    free_nodes(mem, allocator.free_list, Cardinality(DOMAIN mem)) = DOMAIN mem

\* --------------------------------------------------------- pool properties
\* C16: get_node never returns an address that is outstanding, so the
\* addresses handed out and not yet returned are pairwise distinct; the
\* address returned is one the pool has issued a slot for.
C16_NoDoubleIssue ==
  [][lastOp'.op = "get_node" =>
       /\ lastOp'.ret \notin outstanding
       /\ lastOp'.ret \in DOMAIN mem'
       /\ Cardinality(outstanding') = Cardinality(outstanding) + 1]_vars

\* C16 witness: get_node has reused a returned node while two other nodes
\* were outstanding.
C16_Witness ==
  /\ lastOp.op = "get_node"
  /\ Cardinality(outstanding) >= 3
  /\ \E n \in outstanding : n > lastOp.ret

\* address n lies in one of the blocks of the directory
in_block(a, n) ==
  \E i \in 1..a.blocks_len :
    a.blocks[i] # NULL /\ a.blocks[i] <= n /\ n < a.blocks[i] + a.block_size

\* C17: no get_node or return_node call frees, moves or reorders a block:
\* the directory entries 0..blocks_len are the same after every call, also
\* when the directory doubles, and every outstanding address lies in a block
\* of the directory.
C17_BlocksStable ==
  [][/\ IsPrefix(allocator.blocks, allocator'.blocks)
     /\ allocator'.blocks_len = Len(allocator'.blocks)
     /\ allocator'.blocks_len <= allocator'.blocks_cap
     /\ \A n \in outstanding' : in_block(allocator', n)]_vars

\* C17 witness: the directory has doubled while a node of the first block
\* was outstanding, and that node is still outstanding.
C17_Witness ==
  /\ lastOp.op \in PoolOps
  /\ allocator.blocks_cap > NewBlocksCap
  /\ allocator.blocks_len >= 2
  /\ 1 \in outstanding

\* the free list as a sequence, following the link slot from node for at
\* most fuel steps
RECURSIVE free_seq(_, _, _)
free_seq(m, node, fuel) ==
  IF node = NULL \/ fuel = 0 THEN <<>>
  ELSE <<node>> \o free_seq(m, m[node].right, fuel - 1)

\* the free list of the pool; a list that runs into a cycle comes out longer
\* than the number of slots
FreeList == free_seq(mem, allocator.free_list, Cardinality(DOMAIN mem) + 1)

\* C18: the free list is acyclic and null-terminated and holds, once each,
\* exactly the addresses that were handed out, returned, and not handed out
\* again since.
C18_FreeListExact ==
  lastOp.op \in PoolOps =>
    /\ \A i, j \in DOMAIN FreeList : FreeList[i] = FreeList[j] => i = j
    /\ {FreeList[i] : i \in DOMAIN FreeList} = {refseq[i] : i \in DOMAIN refseq}
    /\ Len(FreeList) = Len(refseq)
    /\ {FreeList[i] : i \in DOMAIN FreeList} = DOMAIN mem \ outstanding

\* C18 witness: two nodes are on the free list after a returned node was
\* handed out again and a node the client wrote to was returned.
C18_Witness ==
  /\ lastOp.op = "return_node"
  /\ Len(FreeList) >= 2
  /\ \E n \in DOMAIN mem : mem[n].left # PtrNull /\ n \notin outstanding
  /\ \E n \in outstanding : n < FreeList[1]

\* C19: every node get_node returns is in the default state, with a null
\* link and left = Null, whether its slot is fresh or comes from the free
\* list.
C19_NodeIsDefault ==
  [][lastOp'.op = "get_node" =>
       /\ mem'[lastOp'.ret] = DefaultNode
       /\ mem'[lastOp'.ret].right = NULL
       /\ mem'[lastOp'.ret].left = PtrNull]_vars

\* C19 witness: get_node has handed out a node from a free list of two or
\* more nodes, so the link slot of the node held a pointer while it was
\* free.
C19_Witness ==
  /\ lastOp.op = "get_node"
  /\ allocator.free_list # NULL
  /\ mem[lastOp.ret] = DefaultNode

\* -------------------------------------------------------- stack properties
\* the values stored in the list, from head on, for at most fuel nodes
RECURSIVE list_vals(_, _, _)
list_vals(m, node, fuel) ==
  IF node = NULL \/ fuel = 0 THEN <<>>
  ELSE <<m[node].val>> \o list_vals(m, m[node].next, fuel - 1)

\* C20: LinkedListStack behaves as a LIFO sequence under any interleaving of
\* push, pop and peek: pop and peek return the most recently pushed element
\* not yet popped, pop removes it, len() is the number of stored elements,
\* is_empty() holds exactly when len() = 0, and the list holds the stored
\* elements from the newest to the oldest.
C20_StackIsLifo ==
  [][cont'.kind = "LinkedListStack" =>
       /\ LinkedListStack_len(cont') = Len(refseq')
       /\ LinkedListStack_is_empty(cont') <=> (LinkedListStack_len(cont') = 0)
       /\ list_vals(cont'.mem, cont'.head, Len(refseq') + 1) = Reverse(refseq')
       /\ (lastOp'.op = "pop" /\ refseq # <<>>) =>
            (lastOp'.ret = 1 /\ lastOp'.val = peek(refseq) /\ refseq' = pop(refseq))
       /\ (lastOp'.op = "peek" /\ refseq # <<>>) =>
            (lastOp'.ret = 1 /\ lastOp'.val = peek(refseq) /\ refseq' = refseq)
       /\ lastOp'.op = "push" => peek(refseq') = lastOp'.key]_vars

\* C20 witness: pop has returned an element pushed after an earlier pop had
\* freed a node, while a different older element stays on the stack.
C20_Witness ==
  /\ cont.kind = "LinkedListStack"
  /\ lastOp.op = "pop" /\ lastOp.ret = 1
  /\ cont.allocator.free_list # NULL
  /\ cont.mem[cont.allocator.free_list].next # NULL
  /\ refseq # <<>> /\ peek(refseq) # lastOp.val

\* -------------------------------------------------------- queue properties
\* the values of the nodes from node on, following next, up to the node stop
RECURSIVE ring_vals(_, _, _, _)
ring_vals(m, node, stop, fuel) ==
  IF node = stop \/ fuel = 0 THEN <<>>
  ELSE <<m[node].val>> \o ring_vals(m, m[node].next, stop, fuel - 1)

\* the values of the nodes from node on, following prev, up to the node stop
RECURSIVE ring_vals_back(_, _, _, _)
ring_vals_back(m, node, stop, fuel) ==
  IF node = stop \/ fuel = 0 THEN <<>>
  ELSE <<m[node].val>> \o ring_vals_back(m, m[node].prev, stop, fuel - 1)

LinkedQueueKinds == {"LinkedListQueue", "CircularLinkedQueue", "DoubleLinkedQueue"}

\* the elements a linked queue holds, read off its nodes from the oldest to
\* the newest
queue_vals(q, fuel) ==
  CASE q.kind = "LinkedListQueue" -> list_vals(q.mem, q.remove, fuel)
    [] q.kind = "CircularLinkedQueue" ->
         LET sentinel == q.mem[q.entry].next
         IN ring_vals(q.mem, q.mem[sentinel].next, sentinel, fuel)
    [] q.kind = "DoubleLinkedQueue" ->
         ring_vals_back(q.mem, q.mem[q.entry].prev, q.entry, fuel)

\* C21: LinkedListQueue, CircularLinkedQueue and DoubleLinkedQueue each behave
\* as the reference FIFO sequence under any interleaving of enqueue, dequeue,
\* peek, len and is_empty: dequeue and peek return the oldest element not yet
\* dequeued, dequeue removes it, enqueue succeeds and adds the element as the
\* newest, len() is the number of elements, is_empty() holds exactly when
\* len() = 0, and the nodes hold the elements in order, also after the queue
\* has been drained and refilled.
C21_LinkedQueuesAreFifo ==
  [][cont'.kind \in LinkedQueueKinds =>
       /\ queue_len(cont') = Len(refseq')
       /\ queue_is_empty(cont') <=> (queue_len(cont') = 0)
       /\ queue_vals(cont', Len(refseq') + 1) = refseq'
       /\ cont'.kind = "DoubleLinkedQueue" =>
            ring_vals(cont'.mem, cont'.mem[cont'.entry].next, cont'.entry,
                      Len(refseq') + 1) = Reverse(refseq')
       /\ (lastOp'.op = "dequeue" /\ refseq # <<>>) =>
            (lastOp'.ret = 1 /\ lastOp'.val = Head(refseq)
               /\ refseq' = Tail(refseq))
       /\ (lastOp'.op = "queue_peek" /\ refseq # <<>>) =>
            (lastOp'.ret = 1 /\ lastOp'.val = Head(refseq) /\ cont' = cont)
       /\ lastOp'.op = "enqueue" =>
            (lastOp'.ret = 1 /\ refseq' = Append(refseq, lastOp'.key))]_vars

\* C21 witness: a CircularLinkedQueue that was drained to empty and refilled
\* has returned its oldest element from dequeue while a different, newer
\* element stays queued.
C21_Witness ==
  /\ cont.kind = "CircularLinkedQueue"
  /\ "drained" \in hist
  /\ lastOp.op = "dequeue" /\ lastOp.ret = 1
  /\ refseq # <<>> /\ Head(refseq) # lastOp.val

\* the elements a BoundedQueue holds, read from front on around the buffer
ring_buffer_vals(q) ==
  [i \in 1..q.len |-> q.base[((q.front + i - 1) % q.max_size) + 1]]

\* C24: BoundedQueue::new(c), c >= 1, behaves as a FIFO of capacity c under
\* any interleaving of enqueue, dequeue and peek: max_size stays c, front and
\* rear stay inside the buffer with rear = (front + len) mod c, the cells from
\* front on (around the end of the buffer) hold the reference sequence,
\* enqueue succeeds exactly when len < c and otherwise aborts with
\* "overflow: enqueuing to a full queue" leaving the queue as it was, and
\* dequeue and peek return the oldest element.
C24_BoundedQueueIsFifo ==
  [][cont'.kind = "BoundedQueue" =>
       /\ lastOp'.op = "queue_new" =>
            (cont'.max_size = lastOp'.key /\ cont'.max_size >= 1)
       /\ cont.kind = "BoundedQueue" => cont'.max_size = cont.max_size
       /\ BoundedQueue_len(cont') = Len(refseq')
       /\ BoundedQueue_max_len(cont') = cont'.max_size
       /\ BoundedQueue_is_empty(cont') <=> (refseq' = <<>>)
       /\ cont'.front \in 0..(cont'.max_size - 1)
       /\ cont'.rear = (cont'.front + cont'.len) % cont'.max_size
       /\ ring_buffer_vals(cont') = refseq'
       /\ lastOp'.op = "enqueue" =>
            IF Len(refseq) < cont.max_size
            THEN lastOp'.ret = 1 /\ refseq' = Append(refseq, lastOp'.key)
            ELSE /\ lastOp'.ret = -1 /\ lastOp'.val = MsgOverflowEnqueue
                 /\ cont' = cont /\ refseq' = refseq
       /\ (lastOp'.op = "dequeue" /\ refseq # <<>>) =>
            (lastOp'.ret = 1 /\ lastOp'.val = Head(refseq)
               /\ refseq' = Tail(refseq))
       /\ (lastOp'.op = "queue_peek" /\ refseq # <<>>) =>
            (lastOp'.ret = 1 /\ lastOp'.val = Head(refseq) /\ cont' = cont)]_vars

\* C24 witness: an enqueue has aborted on a full queue of capacity >= 2 whose
\* elements wrap around the end of the buffer (front = rear > 0).
C24_Witness ==
  /\ cont.kind = "BoundedQueue"
  /\ cont.max_size >= 2 /\ cont.len = cont.max_size
  /\ cont.front > 0 /\ cont.rear = cont.front
  /\ lastOp.op = "enqueue" /\ lastOp.ret = -1

\* ------------------------------------------------ bounded stack properties
BoundedStackKinds == {"ArrayStack", "BoundedStack"}

\* the capacity of a bounded stack: N of ArrayStack<_, N>, max_size of
\* BoundedStack
capacity(s) ==
  IF s.kind = "ArrayStack" THEN ArrayStack_max_len(s) ELSE BoundedStack_max_len(s)

\* the cells of a bounded stack from the bottom to the top
bounded_vals(s) ==
  IF s.kind = "ArrayStack"
  THEN SubSeq(s.stack, 1, s.len)
  ELSE SubSeq(s.base, 1, s.top)

\* C23: for BoundedStack::new(c) and ArrayStack<_, N> the capacity is the
\* one given at construction and never changes; push succeeds exactly when
\* len < capacity, and a push at len = capacity aborts with
\* "overflow: pushing to a full stack" leaving the stack as it was; the cells
\* hold the reference LIFO sequence, and pop and peek return its top.
C23_BoundedStacks ==
  [][cont'.kind \in BoundedStackKinds =>
       /\ lastOp'.op = "stack_new" => capacity(cont') = lastOp'.key
       /\ cont.kind \in BoundedStackKinds => capacity(cont') = capacity(cont)
       /\ stack_len(cont') = Len(refseq')
       /\ stack_len(cont') <= capacity(cont')
       /\ stack_is_empty(cont') <=> (refseq' = <<>>)
       /\ bounded_vals(cont') = refseq'
       /\ lastOp'.op = "push" =>
            IF Len(refseq) < capacity(cont)
            THEN lastOp'.ret = 1 /\ refseq' = push(refseq, lastOp'.key)
            ELSE /\ lastOp'.ret = -1 /\ lastOp'.val = MsgOverflow
                 /\ cont' = cont /\ refseq' = refseq
       /\ (lastOp'.op = "pop" /\ refseq # <<>>) =>
            (lastOp'.ret = 1 /\ lastOp'.val = peek(refseq)
               /\ refseq' = pop(refseq))
       /\ (lastOp'.op = "peek" /\ refseq # <<>>) =>
            (lastOp'.ret = 1 /\ lastOp'.val = peek(refseq) /\ cont' = cont)]_vars

\* C23 witness: a push has aborted on a full ArrayStack of capacity >= 2 that
\* had been popped empty and pushed full again.
C23_Witness ==
  /\ cont.kind = "ArrayStack"
  /\ capacity(cont) >= 2 /\ cont.len = capacity(cont)
  /\ "drained" \in hist
  /\ lastOp.op = "push" /\ lastOp.ret = -1 /\ lastOp.val = MsgOverflow

\* --------------------------------------------- unbounded stack properties
\* C25: a ShadowCopyStack created with base_size >= 1 behaves as the
\* reference LIFO sequence under any interleaving of push, pop and peek: push
\* always succeeds, the cells of base below base_size hold the reference
\* sequence (no element lost, duplicated or reordered) before, during and
\* after the copy into the doubled array, whether push or pop switches to it,
\* pop and peek return the top, and len() is the number of elements. For the
\* capacities followed on the size fields alone: every push succeeds and
\* adds one to len(), every pop of a non-empty stack succeeds and takes one
\* from it, and len() never exceeds the cells of base.
C25_ShadowCopyStackIsLifo ==
  [][/\ cont'.kind = "ShadowCopyStack" =>
          /\ ShadowCopyStack_len(cont') = Len(refseq')
          /\ ShadowCopyStack_is_empty(cont') <=> (refseq' = <<>>)
          /\ cont'.base_size <= Len(cont'.base)
          /\ SubSeq(cont'.base, 1, cont'.base_size) = refseq'
          /\ lastOp'.op = "push" =>
               (lastOp'.ret = 1 /\ refseq' = push(refseq, lastOp'.key))
          /\ (lastOp'.op = "pop" /\ refseq # <<>>) =>
               (lastOp'.ret = 1 /\ lastOp'.val = peek(refseq)
                  /\ refseq' = pop(refseq))
          /\ (lastOp'.op = "peek" /\ refseq # <<>>) =>
               (lastOp'.ret = 1 /\ lastOp'.val = peek(refseq) /\ cont' = cont)
     /\ cont'.kind = "ShadowCopySizes" =>
          /\ cont'.base_size <= cont'.max_size
          /\ lastOp'.op = "push" =>
               (lastOp'.ret = 1 /\ cont'.base_size = cont.base_size + 1)
          /\ (lastOp'.op = "pop" /\ cont.base_size > 0) =>
               (lastOp'.ret = 1 /\ cont'.base_size = cont.base_size - 1)]_vars

\* C25 witness: after a pop had switched the stack to its copy, a new copy is
\* under way that holds only part of the elements, and pop has returned an
\* element different from the one now on top.
C25_Witness ==
  /\ cont.kind = "ShadowCopyStack"
  /\ "pop_switch" \in hist
  /\ cont.copy # NoArray /\ cont.copy_size < cont.base_size
  /\ lastOp.op = "pop" /\ lastOp.ret = 1
  /\ refseq # <<>> /\ peek(refseq) # lastOp.val

\* the cells of the saved chunks, from the oldest chunk to the newest
RECURSIVE chunk_vals(_)
chunk_vals(previous) ==
  IF previous = <<>> THEN <<>>
  ELSE LET p == previous[Len(previous)]
       IN chunk_vals(SubSeq(previous, 1, Len(previous) - 1))
            \o SubSeq(p.base, 1, p.top)

\* C26: UnboundedStack::new(c), c >= 1, behaves as the reference LIFO
\* sequence under any interleaving of push, pop and peek: push always
\* succeeds, the saved chunks followed by the current chunk hold the
\* reference sequence, every saved chunk is full, pop and peek return the
\* top also when it lies in the previous chunk, len() is the number of
\* elements and is_empty() holds exactly when len() = 0.
C26_UnboundedStackIsLifo ==
  [][cont'.kind = "UnboundedStack" =>
       /\ UnboundedStack_len(cont') = Len(refseq')
       /\ UnboundedStack_is_empty(cont') <=> (UnboundedStack_len(cont') = 0)
       /\ cont'.top <= cont'.chunk_size
       /\ \A i \in DOMAIN cont'.previous :
            cont'.previous[i].top = cont'.previous[i].chunk_size
       /\ chunk_vals(cont'.previous) \o SubSeq(cont'.base, 1, cont'.top) = refseq'
       /\ lastOp'.op = "push" =>
            (lastOp'.ret = 1 /\ refseq' = push(refseq, lastOp'.key))
       /\ (lastOp'.op = "pop" /\ refseq # <<>>) =>
            (lastOp'.ret = 1 /\ lastOp'.val = peek(refseq)
               /\ refseq' = pop(refseq))
       /\ (lastOp'.op = "peek" /\ refseq # <<>>) =>
            (lastOp'.ret = 1 /\ lastOp'.val = peek(refseq) /\ cont' = cont)]_vars

\* C26 witness: a stack of chunk size >= 2 that has popped its way back into
\* a previous chunk has opened a new chunk again, emptied it, and peek has
\* returned the top cell of the previous chunk.
C26_Witness ==
  /\ cont.kind = "UnboundedStack"
  /\ cont.chunk_size >= 2
  /\ "chunk_back" \in hist
  /\ cont.top = 0 /\ cont.previous # <<>>
  /\ lastOp.op = "peek" /\ lastOp.ret = 1

\* ------------------------------------------------------------- underflow
\* C22: whenever the container holds no elements, pop and peek on any of the
\* five stacks and dequeue and peek on any of the four queues abort with the
\* underflow panic of the call, return no value and leave the container as
\* it was.
C22_UnderflowAborts ==
  [][(cont.kind \in StackKinds \cup QueueKinds /\ refseq = <<>>) =>
       /\ lastOp'.op \in {"pop", "peek", "dequeue", "queue_peek"} =>
            (lastOp'.ret = -1 /\ cont' = cont /\ refseq' = refseq)
       /\ lastOp'.op = "pop" => lastOp'.val = MsgUnderflowPop
       /\ lastOp'.op = "peek" => lastOp'.val = MsgUnderflowPeek
       /\ lastOp'.op = "dequeue" => lastOp'.val = MsgUnderflowDequeue
       /\ lastOp'.op = "queue_peek" => lastOp'.val = MsgUnderflowQueuePeek]_vars

\* C22 witness: dequeue has aborted with the underflow panic on a
\* CircularLinkedQueue that had held elements and was drained to empty.
C22_Witness ==
  /\ cont.kind = "CircularLinkedQueue"
  /\ "drained" \in hist /\ refseq = <<>>
  /\ lastOp.op = "dequeue" /\ lastOp.ret = -1
  /\ lastOp.val = MsgUnderflowDequeue

\* ------------------------------------------------- tree shape properties
\* the keys of the leaves below node n, for at most fuel levels
RECURSIVE leaf_keys(_, _, _)
leaf_keys(m, n, fuel) ==
  IF fuel = 0 THEN {}
  ELSE IF m[n].right = NULL THEN {m[n].key}
  ELSE leaf_keys(m, m[n].left.ptr, fuel - 1) \cup leaf_keys(m, m[n].right, fuel - 1)

\* the nodes met on the walk from node n down to its leaves, in preorder; a
\* node reachable by two paths appears twice
RECURSIVE walk(_, _, _)
walk(m, n, fuel) ==
  IF fuel = 0 THEN <<>>
  ELSE IF m[n].left.tag = "Node" /\ m[n].right # NULL
  THEN <<n>> \o walk(m, m[n].left.ptr, fuel - 1) \o walk(m, m[n].right, fuel - 1)
  ELSE <<n>>

\* the nodes reachable from the root
Reachable == walk(mem, root, Cardinality(DOMAIN mem) + 1)

\* C27: after every sequence of insert and remove calls, and in every tree
\* built by from_sorted, every internal node n reachable from the root has
\* only leaves with key < n.key below n.left and only leaves with
\* key >= n.key below n.right.
C27_RoutingOrder ==
  root # NULL =>
    \A i \in DOMAIN Reachable :
      LET n == mem[Reachable[i]]
          fuel == Cardinality(DOMAIN mem)
      IN has_subtrees(n) =>
           /\ \A k \in leaf_keys(mem, n.left.ptr, fuel) : k < n.key
           /\ \A k \in leaf_keys(mem, n.right, fuel) : k >= n.key

\* C27 witness: a remove has overwritten a parent with its sibling in a tree
\* that keeps an internal node made by the k < L.key branch of insert, whose
\* routing key is the one the leaf had.
C27_Witness ==
  /\ root # NULL
  /\ lastOp.op = "remove" /\ lastOp.ret # None
  /\ \E i \in DOMAIN Reachable :
       /\ has_subtrees(mem[Reachable[i]])
       /\ mem[Reachable[i]].kst = "dropped"

\* C28: after every sequence of insert and remove calls, and after
\* from_sorted, every node reachable from the root is a leaf (left = value,
\* right = null) or an internal node (left = child node, right non-null),
\* except that the root is in the empty state exactly when the tree has no
\* entries; the root is itself the leaf exactly when the tree has one entry;
\* and no node is reachable by two different paths.
C28_NodeStates ==
  root # NULL =>
    /\ \A i \in DOMAIN Reachable :
         LET n == mem[Reachable[i]]
         IN \/ is_leaf(n)
            \/ has_subtrees(n) /\ n.left.ptr \in DOMAIN mem /\ n.right \in DOMAIN mem
            \/ Reachable[i] = root /\ is_empty(n)
    /\ is_empty(mem[root]) <=> (NumBound = 0)
    /\ is_leaf(mem[root]) <=> (NumBound = 1)
    /\ \A i, j \in DOMAIN Reachable : Reachable[i] = Reachable[j] => i = j

\* C28 witness: a remove from a tree of two entries has overwritten the root
\* with the sibling leaf, so the root is the leaf of the one entry left.
C28_Witness ==
  /\ root # NULL
  /\ lastOp.op = "remove" /\ lastOp.ret # None
  /\ is_leaf(mem[root]) /\ NumBound = 1

\* the nodes on the free list of the tree's pool
FreeNodes == free_nodes(mem, allocator.free_list, Cardinality(DOMAIN mem))

\* C29: the root node is acquired from the pool when the tree is created
\* (by new or from_sorted), its address never changes afterwards, and no
\* insert or remove puts it on the pool's free list, also when the last
\* entry is removed or when remove collapses the root's child into the root.
C29_RootStays ==
  [][/\ (root = NULL /\ root' # NULL) =>
          (root' \in DOMAIN mem' /\ root' \notin DOMAIN mem)
     /\ root # NULL => root' = root
     /\ root' # NULL =>
          root' \notin free_nodes(mem', allocator'.free_list,
                                  Cardinality(DOMAIN mem'))]_vars

\* C29 witness: a remove has taken the last entry out of a tree that had
\* returned nodes to the pool before: the root is empty, the free list is
\* not, and the root is not on it.
C29_Witness ==
  /\ root # NULL
  /\ lastOp.op = "remove" /\ lastOp.ret # None
  /\ is_empty(mem[root])
  /\ FreeNodes # {} /\ root \notin FreeNodes

\* the nodes a pool with heap m and allocator a has handed out and not got
\* back
outstanding_nodes(a, m) ==
  DOMAIN m \ free_nodes(m, a.free_list, Cardinality(DOMAIN m))

\* C30: insert of a new key into a non-empty tree acquires exactly two
\* nodes; remove of a present key from a tree of at least two entries
\* overwrites the parent with the sibling's key, left and right and returns
\* exactly the removed leaf and the sibling to the pool; and in every state
\* the tree holds max(1, 2 * leaves - 1) outstanding pool nodes.
C30_NodeCount ==
  [][LET out == outstanding_nodes(allocator, mem)
         out1 == outstanding_nodes(allocator', mem')
         k == lastOp'.key
         leaves1 == NumLeaves(mem', root')
     IN /\ (lastOp'.op = "insert" /\ bind[k] = None /\ NumBound >= 1) =>
             (out \subseteq out1 /\ Cardinality(out1 \ out) = 2)
        /\ (lastOp'.op = "remove" /\ bind[k] # None /\ NumBound >= 2) =>
             LET d == descend_remove(mem, NULL, NULL, root, k)
             IN /\ d.tmp # d.other /\ {d.tmp, d.other} \subseteq out
                /\ out1 = out \ {d.tmp, d.other}
                /\ mem'[d.upper].key = mem[d.other].key
                /\ mem'[d.upper].left = mem[d.other].left
                /\ mem'[d.upper].right = mem[d.other].right
        /\ root' # NULL =>
             Cardinality(out1) = IF leaves1 = 0 THEN 1 ELSE 2 * leaves1 - 1]_vars

\* C30 witness: an insert of a new key has taken its two nodes while the
\* free list keeps nodes that earlier removes returned, in a tree of at least
\* two leaves.
C30_Witness ==
  /\ root # NULL
  /\ lastOp.op = "insert" /\ lastOp.ret = None
  /\ NumLeaves(mem, root) >= 2
  /\ FreeNodes # {}
\* ------------------------------------------- from_sorted work stack
\* the largest number of frames the work stack holds at any moment of the
\* loop of from_sorted that starts in b
RECURSIVE build_depth(_, _)
build_depth(b, input) ==
  IF b.overflow \/ b.stack = <<>> THEN Len(b.stack)
  ELSE LET d == build_depth(build_step(b, input), input)
       IN IF Len(b.stack) >= d THEN Len(b.stack) ELSE d

\* the <<key, value>> pairs of the leaves below node n, from left to right
RECURSIVE leaf_entries(_, _)
leaf_entries(m, n) ==
  IF m[n].right = NULL THEN <<<<m[n].key, m[n].left.ptr>>>>
  ELSE leaf_entries(m, m[n].left.ptr) \o leaf_entries(m, m[n].right)

\* C31: during from_sorted on an input of length n >= 1, sorted or not, the
\* work stack never holds more than floor(log2 n) + 1 frames, no push
\* overflows the BoundedStack of that capacity, exactly n items are read, and
\* the leaves hold the items of the input from left to right.
C31_BuildStackBounded ==
  (lastOp.op = "from_sorted" /\ Len(lastOp.key) >= 1) =>
    LET input == lastOp.key
        b0 == build_start(Len(input))
        b == build(b0, input)
    IN /\ build_depth(b0, input) <= ilog2(Len(input)) + 1
       /\ ~b.overflow
       /\ lastOp.val # MsgOverflow
       /\ b.stack = <<>>
       /\ b.pos - 1 = Len(input)
       /\ leaf_entries(b.mem, peek(b0.stack).node1) = input

\* C31 witness: from_sorted has built a tree from four items, and its work
\* stack was full (three frames) at some moment of the loop.
C31_Witness ==
  /\ lastOp.op = "from_sorted" /\ lastOp.ret = 1
  /\ Len(lastOp.key) = 4
  /\ build_depth(build_start(4), lastOp.key) = ilog2(4) + 1
  /\ leaf_entries(mem, root) = lastOp.key
\* ------------------------------------------------ pool reuse and growth
\* C32: when the free list is non-empty, get_node returns the node returned
\* most recently among those not handed out again (the head of the free
\* list), makes the node returned before it the new head, issues no fresh
\* slot, allocates no block and leaves blocks, blocks_len, blocks_cap, cursor
\* and size_left unchanged.
C32_ReuseIsLifo ==
  [][(lastOp'.op = "get_node" /\ allocator.free_list # NULL) =>
       /\ lastOp'.ret = allocator.free_list
       /\ lastOp'.ret = refseq[Len(refseq)]
       /\ allocator'.free_list =
            (IF Len(refseq) >= 2 THEN refseq[Len(refseq) - 1] ELSE NULL)
       /\ DOMAIN mem' = DOMAIN mem
       /\ allocator'.blocks = allocator.blocks
       /\ allocator'.blocks_len = allocator.blocks_len
       /\ allocator'.blocks_cap = allocator.blocks_cap
       /\ allocator'.cursor = allocator.cursor
       /\ allocator'.size_left = allocator.size_left]_vars

\* C32 witness: get_node has taken a node from a free list of two or more
\* nodes while the current block still had a fresh slot.
C32_Witness ==
  /\ lastOp.op = "get_node"
  /\ allocator.free_list # NULL
  /\ allocator.size_left > 0
  /\ lastOp.ret \in outstanding

\* the counters of pool a agree with each other and with the slots issued in
\* heap m
pool_counters(a, m) ==
  /\ a.blocks_len <= a.blocks_cap
  /\ a.size_left <= a.block_size
  /\ Cardinality(DOMAIN m) = a.blocks_len * a.block_size - a.size_left

\* C33: get_node allocates a block exactly when the free list is empty and
\* the current block is exhausted (no block yet, or size_left = 0), and no
\* other call allocates one; blocks_cap doubles exactly when a block is
\* allocated with blocks_len = blocks_cap and is unchanged otherwise; before
\* and after every call blocks_len <= blocks_cap, size_left <= block_size, and the
\* number of fresh slots issued is blocks_len * block_size - size_left.
C33_BlockGrowth ==
  [][LET exhausted == /\ lastOp'.op = "get_node"
                      /\ allocator.free_list = NULL
                      /\ (allocator.cursor = NULL \/ allocator.size_left = 0)
     IN /\ pool_counters(allocator, mem)
        /\ pool_counters(allocator', mem')
        /\ allocator'.blocks_len =
             (IF exhausted THEN allocator.blocks_len + 1 ELSE allocator.blocks_len)
        /\ allocator'.blocks_cap =
             (IF exhausted /\ allocator.blocks_len = allocator.blocks_cap
              THEN 2 * allocator.blocks_cap ELSE allocator.blocks_cap)
        /\ allocator'.block_size = allocator.block_size]_vars

\* C33 witness: get_node has allocated a second block into a full directory,
\* which doubled, and the new block still has a fresh slot.
C33_Witness ==
  /\ lastOp.op = "get_node"
  /\ allocator.free_list = NULL
  /\ allocator.blocks_len = 2
  /\ allocator.blocks_cap = 2 * NewBlocksCap
  /\ allocator.size_left > 0
  /\ lastOp.ret = allocator.blocks[2]
\* ------------------------------------------------- find on an empty tree
\* C34: on an empty tree, never filled or emptied again by remove, next()
\* and next_back() on a find(lo..hi) iterator return None, and no call on
\* the iterator aborts.
C34_FindOnEmptyTree ==
  (root # NULL /\ is_empty(mem[root])) =>
    /\ it.kind = "find" =>
         /\ find_next(mem, it.iter_stack, it.last_rev_key, it.start, it.end).ret = "None"
         /\ find_next_back(mem, it.rev_stack, it.last_iter_key, it.start, it.end).ret = "None"
    /\ ~(lastOp.op \in {"next", "next_back"} /\ lastOp.ret = -1)

\* ------------------------------------------------------- key ownership
\* C35: over any sequence of insert and remove calls followed by drop of the
\* tree, every node of a non-empty tree, leaf or internal, holds a key that
\* is initialised and not dropped (so the k < L.key branch of insert leaves
\* the key of L alive), every key a remove drops was not dropped before, and
\* the drop of the tree drops the key of each node once, each of them a key
\* that was not dropped before.
C35_KeysDroppedOnce ==
  /\ (root # NULL /\ lastOp.op # "drop" /\ ~is_empty(mem[root])) =>
       \A i \in DOMAIN Reachable : mem[Reachable[i]].kst = "init"
  /\ lastOp.op = "remove" =>
       \A i \in DOMAIN lastOp.val : lastOp.val[i].kst = "init"
  /\ lastOp.op = "drop" =>
       /\ \A i \in DOMAIN lastOp.key : lastOp.key[i].kst = "init"
       /\ \A i, j \in DOMAIN lastOp.key :
            lastOp.key[i].node = lastOp.key[j].node => i = j

\* ------------------------------------------------- iter from both ends
\* C36: under any interleaving of next() and next_back() on one iter(), the
\* forward calls yield a prefix of the entries in ascending key order and
\* the backward calls a prefix of the entries in descending order, and once
\* both ends have returned None the two together are exactly all entries of
\* the tree, each once, with none between the two frontiers left out.
C36_IterMeetsInTheMiddle ==
  it.kind = "iter" =>
    LET all == Ascending(BoundIn(0, MaxKey + 1))
    IN /\ IsPrefix(yielded.fwd, all)
       /\ IsPrefix(yielded.rev, Reverse(all))
       /\ (it.fwd_none /\ it.rev_none) => yielded.fwd \o Reverse(yielded.rev) = all

\* C36 witness: on a tree of three entries that was changed after its
\* construction, both ends have yielded, the backward end more than once,
\* and both have returned None.
C36_Witness ==
  /\ it.kind = "iter" /\ it.fwd_none /\ it.rev_none
  /\ Len(yielded.fwd) = 1 /\ Len(yielded.rev) = 2
  /\ NumBound = 3 /\ ops >= 1

\* ------------------------------------------------ teardown terminates
\* the number of left links from node n down to the first leaf
RECURSIVE left_spine(_, _, _)
left_spine(m, n, fuel) ==
  IF fuel = 0 \/ ~has_subtrees(m[n]) THEN 0
  ELSE 1 + left_spine(m, m[n].left.ptr, fuel - 1)

\* the nodes of the tree below node n
nodes_below(m, n) ==
  LET w == walk(m, n, Cardinality(DOMAIN m) + 1)
  IN {w[i] : i \in DOMAIN w}

\* one turn of the loop of Drop from d to e releases two nodes of the tree
\* below the current node, or keeps the nodes and shortens the left spine by
\* one
drop_progress(d, e) ==
  LET fuel == Cardinality(DOMAIN d.mem) + 1
      before == nodes_below(d.mem, d.current)
      after == nodes_below(e.mem, e.current)
      released == free_nodes(e.mem, e.alloc.free_list, fuel) \
                    free_nodes(d.mem, d.alloc.free_list, fuel)
  IN \/ /\ Cardinality(released) = 2
        /\ released \subseteq before
        /\ after = before \ released
     \/ /\ released = {}
        /\ after = before
        /\ left_spine(e.mem, e.current, fuel) = left_spine(d.mem, d.current, fuel) - 1

\* the loop of Drop started in d ends at a node without subtrees within fuel
\* turns, each of which makes progress
RECURSIVE drop_terminates(_, _)
drop_terminates(d, fuel) ==
  IF ~has_subtrees(d.mem[d.current]) THEN is_leaf(d.mem[d.current])
  ELSE IF fuel = 0 THEN FALSE
  ELSE /\ drop_progress(d, drop_step(d))
       /\ drop_terminates(drop_step(d), fuel - 1)

\* C37: for every tree reached by inserts, removes and from_sorted, the
\* loop of Drop reaches a leaf within as many turns as the tree has nodes,
\* and every turn either releases two nodes or shortens the left spine of
\* the current node by a rotation that keeps the nodes.
C37_DropTerminates ==
  [][lastOp'.op = "drop" /\ ~is_empty(mem[root]) =>
       drop_terminates([alloc |-> allocator, mem |-> mem, current |-> root,
                        vals |-> <<>>, keys |-> <<>>, ret |-> "ok"],
                       Cardinality(nodes_below(mem, root)))]_vars

\* C37 witness: a tree of three or more entries has been dropped whose root
\* had an internal left child, so the walk began with a rotation and the
\* first internal node it released was not the root (the first slot of the
\* pool).
C37_Witness ==
  /\ lastOp.op = "drop" /\ lastOp.ret = 1
  /\ Len(lastOp.key) >= 5
  /\ lastOp.key[2].node # 1
  /\ ops >= 2

\* ------------------------------------------------ from_sorted of nothing
\* C38: from_sorted on an empty input returns a tree, and that tree is
\* empty: len() = 0, get(k) is None for every k and iter() yields nothing.
C38_FromSortedEmpty ==
  (lastOp.op = "from_sorted" /\ Len(lastOp.key) = 0) =>
    /\ lastOp.ret = 1
    /\ lastOp.val = MsgNone
    /\ root # NULL
    /\ Observe(mem, root, length) =
         LET t == new_tree(NewBlockSize, NewBlocksCap)
         IN Observe(t.mem, t.root, t.length)

\* ------------------------------------------------------------ rotations
\* every internal node below node n routes: the leaves below its left child
\* have smaller keys than its own, the leaves below its right child have
\* keys greater than or equal to it
routing_order(m, n) ==
  LET fuel == Cardinality(DOMAIN m) + 1
  IN \A x \in nodes_below(m, n) :
       has_subtrees(m[x]) =>
         /\ \A k \in leaf_keys(m, m[x].left.ptr, fuel) : k < m[x].key
         /\ \A k \in leaf_keys(m, m[x].right, fuel) : k >= m[x].key

\* C39: left_rotation on an internal node whose right child is internal and
\* right_rotation on an internal node whose left child is internal succeed
\* (any other call fails its assertion and changes nothing); they keep the
\* node as the root of the subtree with the same nodes below it, touch no
\* node but the node and the child that changes side, preserve the leaves
\* of the subtree from left to right and the routing order, and
\* right_rotation after left_rotation, like left_rotation after
\* right_rotation, restores the links and keys of the subtree.
C39_Rotations ==
  [][lastOp'.op \in {"left_rotation", "right_rotation"} =>
       LET self == lastOp'.key
           left == lastOp'.op = "left_rotation"
           pivot == IF left THEN mem[self].right ELSE mem[self].left.ptr
           valid == has_subtrees(mem[self]) /\ has_subtrees(mem[pivot])
       IN /\ (lastOp'.ret = 1) <=> valid
          /\ ~valid => mem' = mem
          /\ valid =>
               /\ root' = root
               /\ \A x \in DOMAIN mem \ {self, pivot} : mem'[x] = mem[x]
               /\ nodes_below(mem', self) = nodes_below(mem, self)
               /\ leaf_entries(mem', self) = leaf_entries(mem, self)
               /\ leaf_entries(mem', root) = leaf_entries(mem, root)
               /\ routing_order(mem, root) /\ routing_order(mem', root)
               /\ IF left
                  THEN right_rotation(mem', self) =
                         [ret |-> "ok", msg |-> MsgNone, mem |-> mem]
                  ELSE left_rotation(mem', self) =
                         [ret |-> "ok", msg |-> MsgNone, mem |-> mem]]_vars

\* C39 witness: a right_rotation at the root has undone a left_rotation at
\* the root of a tree of four entries, which has its first shape again.
C39_Witness ==
  /\ lastOp.op = "right_rotation" /\ lastOp.ret = 1 /\ lastOp.key = root
  /\ ops = 2
  /\ Len(leaf_entries(mem, root)) = 4
  /\ mem = from_sorted(leaf_entries(mem, root)).mem

\* ------------------------------------------ shadow copy stays in bounds
\* C40: in every state reached by push and pop on a ShadowCopyStack created
\* with base_size >= 1, each push finds base_size < max_size and so writes
\* inside the base array, copy_size <= base_size, and copy_size = 0 whenever
\* no copy array is allocated.
C40_ShadowCopyInBounds ==
  [][(cont'.kind = "ShadowCopySizes" /\ lastOp'.op \in {"push", "pop"}) =>
       /\ lastOp'.op = "push" => (cont.base_size < cont.max_size /\ lastOp'.ret = 1)
       /\ cont'.copy_size <= cont'.base_size
       /\ ~cont'.has_copy => cont'.copy_size = 0]_vars

====
